---- MODULE Spec2Model ----
(***************************************************************************)
(* Model of cybergis_compute_client: the Job lifecycle client (Job.py)     *)
(* and the click handlers of the notebook UI (UI.py).                      *)
(*                                                                         *)
(* Python values are tagged records: None, strings (sequences of tokens,   *)
(* so that '+' is \o and split('://') can be computed) and dicts (sets of  *)
(* key/value pairs).  Truthiness is computed as Python computes it.        *)
(* The Transport (self.client), the service behind it and the file system  *)
(* are the environment: every response is a nondeterministic choice.       *)
(* `trace` records, for the call in progress, every Transport call, every  *)
(* time.sleep, every table display and every file write, in order.         *)
(***************************************************************************)
EXTENDS Integers, Sequences, FiniteSets, TLC

VARIABLES
    files,      \* the working directory: file name -> JSON text
    job,        \* the Job instance (self): id, hpc, maintainer, JAT secret, body
    pc,         \* position of the call in progress ("idle" between calls)
    call,       \* the method called last (in progress, or finished when pc = "idle")
    args,       \* the arguments of that call
    trace,      \* observable effects of the call in progress, in order
    result,     \* outcome of the last finished call: return value or exception
    events,     \* local list `events` of Job.events
    logs,       \* local list `logs` of Job.logs
    out,        \* local `out` of Job.events: the fetched events list
    status,     \* local `status` of Job.logs / `jobStatus` of downloadResultFolder
    startPos,   \* local `startPos` of the live loops
    isEnd,      \* local `isEnd` of the live loops
    polls,      \* number of status fetches of the call in progress
    before,     \* self.body as it was when the call in progress was entered
    response,   \* what the Transport returned last in the call
    \* the notebook UI (UI.py)
    rendered,        \* UI.render() has displayed the tabs
    submitted,       \* self.submitted
    jobFinished,     \* self.jobFinished
    downloading,     \* self.downloading
    refreshing,      \* self.refreshing
    jupyter_globus,  \* self.jupyter_globus is not None
    folderPage,      \* self.folderPage
    totalJobs,       \* the folder count the Next Page button was made with (its closure)
    pageButtons,     \* the page buttons are displayed
    job_list_size,   \* self.recently_submitted['job_list_size']
    listed,          \* indices of the jobs displayed by the last render of the recent jobs
    downloadButton,  \* the Download button is displayed enabled
    submitNewButton, \* the Submit New Job button is displayed
    handler,         \* the click handler that ran last
    given,           \* what the user and the service gave to that handler
    effects          \* the calls that handler made on self.compute, in order

\* the state of Job.py
jobVars == <<files, job, pc, call, args, trace, result, events, logs, out, status, startPos, isEnd, polls, before, response>>

\* the state of UI.py
ui == <<rendered, submitted, jobFinished, downloading, refreshing, jupyter_globus, folderPage,
        totalJobs, pageButtons, job_list_size, listed, downloadButton, submitNewButton, handler, given, effects>>

vars == <<jobVars, ui>>

----------------------------------------------------------------------------
(* Bounds *)

MaxEvents == 2      \* longest events list a status snapshot carries
MaxLogs == 2        \* longest logs list a status snapshot carries
MaxPolls == 3       \* status fetches allowed within one live call
MaxLocLen == 6      \* longest result locator, in tokens
MaxArgs == 1        \* most arguments given to one call of set
MaxDepth == 1       \* deepest level of subdirectories in an uploaded folder
MaxJobs == 11       \* most jobs the service lists for the user
MaxFolders == 21    \* most folders the service lists for the user
MaxListSize == 16   \* largest job_list_size followed (it grows while renders fail)

\* UI.init: self.foldersPerPage (line 1120), job_list_size (line 1138);
\* onLoadMoreClick: the step of Load More (line 1037)
FoldersPerPage == 10
InitialJobListSize == 5
LoadMoreStep == 5

\* defaults of refreshRateInSeconds: events (line 127), logs (line 160)
DefaultEventsRefresh == 10
DefaultLogsRefresh == 15

\* the refresh rates a caller uses: the default, or one of its own
RefreshRates(default) == {default, 1}

----------------------------------------------------------------------------
(* Python values *)

None == [t |-> "none"]
Str(s) == [t |-> "str", s |-> s]
Dict(m) == [t |-> "map", m |-> m]

\* bool(v): None, '' and {} are falsy
Truthy(v) ==
    CASE v.t = "none" -> FALSE
      [] v.t = "str"  -> Len(v.s) > 0
      [] v.t = "map"  -> v.m # {}

\* a + b on strings
Concat(a, b) == Str(a.s \o b.s)

Ids == {Str(<<"j1">>), Str(<<"j2">>)}
Hpcs == {Str(<<"h1">>)}
Secrets == {Str(<<"s1">>)}
Maintainers == {Str(<<"m1">>)}
Users == {Str(<<"u1">>)}
Passwords == {Str(<<"p1">>)}

Opt(S) == S \cup {None}

----------------------------------------------------------------------------
(* Outcomes of a call *)

NoArgs == [x \in {} |-> None]

NoResult == [kind |-> "none"]
Return(v) == [kind |-> "return", value |-> v]
Raise(e) == [kind |-> "raise", exc |-> e]

\* effects recorded in trace
Request(method, path, body) == [k |-> "request", method |-> method, path |-> path, body |-> body]
Sleep(seconds) == [k |-> "sleep", seconds |-> seconds]
IsSleep(e) == e.k = "sleep"
Display(table) == [k |-> "display", table |-> table]
FileWrite(name, text) == [k |-> "write", name |-> name, text |-> text]

----------------------------------------------------------------------------
(* Identity file: json.dump / json.load *)

\* json.dump of a dict of strings: the key/value pairs in insertion order
JsonDump(pairs) == pairs

\* json.load(f)[key]: the value of the last pair with that key
JsonGet(text, key) ==
    LET idx == {i \in 1..Len(text) : text[i][1] = key}
    IN text[CHOOSE i \in idx : \A j \in idx : j <= i][2]

ConstructorFile(id) == Concat(Concat(Str(<<"job_constructor_">>), id), Str(<<".json">>))

\* JAT.init('md5', id, sT); JAT.getAccessToken(): derived from the id and the secret
getAccessToken(j) == [t |-> "token", algorithm |-> "md5", id |-> j.id, secretToken |-> j.sT]

InitBody ==
    [i \in {"param", "env", "slurm", "executableFolder"} |->
        IF i = "executableFolder" THEN None ELSE Dict({})]

NoJob == [live |-> FALSE, id |-> None, hpc |-> None, maintainer |-> None,
          sT |-> None, body |-> InitBody]

\* no status fetched yet
NoStatus == [events |-> <<>>, logs |-> <<>>]

----------------------------------------------------------------------------
Init ==
    /\ files = [n \in {} |-> <<>>]
    /\ job = NoJob
    /\ pc = "idle"
    /\ call = "none"
    /\ args = NoArgs
    /\ trace = <<>>
    /\ result = NoResult
    /\ events = <<>>
    /\ logs = <<>>
    /\ out = <<>>
    /\ status = NoStatus
    /\ startPos = 0
    /\ isEnd = FALSE
    /\ polls = 0
    /\ before = InitBody
    /\ response = None
    /\ rendered = FALSE
    /\ submitted = FALSE
    /\ jobFinished = FALSE
    /\ downloading = FALSE
    /\ refreshing = FALSE
    /\ jupyter_globus = FALSE
    /\ folderPage = 0
    /\ totalJobs = 0
    /\ pageButtons = FALSE
    /\ job_list_size = InitialJobListSize
    /\ listed = {}
    /\ downloadButton = FALSE
    /\ submitNewButton = FALSE
    /\ handler = "none"
    /\ given = NoArgs
    /\ effects = <<>>

locals == <<events, logs, out, status, startPos, isEnd, polls>>

\* a method is entered: its locals are fresh
FreshLocals ==
    /\ events' = <<>>
    /\ logs' = <<>>
    /\ out' = <<>>
    /\ status' = NoStatus
    /\ startPos' = 0
    /\ isEnd' = FALSE
    /\ polls' = 0

----------------------------------------------------------------------------
(* Job.__init__ *)

\* responses of POST /job
CreateResponses == [id : Ids, hpc : Hpcs, secretToken : Secrets]

CreateKeys == {"id", "hpc", "secretToken"}

\* responses of POST /job that lack at least one of the three keys
PartialCreateResponses ==
    UNION {{r \in [K -> Ids \cup Hpcs \cup Secrets] :
                /\ "id" \in K => r["id"] \in Ids
                /\ "hpc" \in K => r["hpc"] \in Hpcs
                /\ "secretToken" \in K => r["secretToken"] \in Secrets} :
           K \in (SUBSET CreateKeys) \ {CreateKeys}}

\* the object left by lines 59-67
NewJob(maintainer, id, hpc, sT) ==
    [live |-> TRUE, id |-> id, hpc |-> hpc, maintainer |-> maintainer,
     sT |-> sT, body |-> InitBody]

\* a request body that carries the password whenever one was given
CreateReq_passwordAlways(maintainer, hpc, user, password) ==
    [i \in {"maintainer"} \cup (IF hpc # None THEN {"hpc"} ELSE {})
                          \cup (IF user # None THEN {"user"} ELSE {})
                          \cup (IF password # None THEN {"password"} ELSE {}) |->
        CASE i = "maintainer" -> maintainer
          [] i = "hpc" -> hpc
          [] i = "user" -> user
          [] i = "password" -> password]

\* the create-job request body, lines 34-45
CreateReq(maintainer, hpc, user, password) ==
    [i \in {"maintainer"} \cup (IF hpc # None THEN {"hpc"} ELSE {})
                          \cup (IF user # None THEN {"user", "password"} ELSE {}) |->
        CASE i = "maintainer" -> maintainer
          [] i = "hpc" -> hpc
          [] i = "user" -> user
          [] i = "password" -> password]

\* what goes wrong when the password is written with the rest
constructorText_withPassword(sT, id, hpc, maintainer, password) ==
    JsonDump(<< <<"secretToken", sT>>, <<"id", id>>, <<"hpc", hpc>>,
                <<"maintainer", maintainer>>, <<"password", password>> >>)

\* line 51: the text json.dump writes to the identity file
constructorText(sT, id, hpc, maintainer, password) ==
    JsonDump(<< <<"secretToken", sT>>, <<"id", id>>, <<"hpc", hpc>>,
                <<"maintainer", maintainer>> >>)

\* a restoration that falls back to the network when the file is missing
init_restore_fallback(maintainer, hpc, id, user, password) ==
    /\ pc = "idle"
    /\ id # None
    /\ call' = "__init__"
    /\ args' = [maintainer |-> maintainer, hpc |-> hpc, id |-> id, user |-> user, password |-> password]
    /\ IF ConstructorFile(id) \in DOMAIN files
       THEN LET constructor == files[ConstructorFile(id)]
            IN /\ job' = NewJob(maintainer,
                                JsonGet(constructor, "id"),
                                JsonGet(constructor, "hpc"),
                                JsonGet(constructor, "secretToken"))
               /\ result' = Return(None)
               /\ trace' = <<>>
       ELSE /\ job' = NoJob
            /\ result' = Raise("constructor file not found")
            /\ trace' = <<Request("POST", Str(<<"/job">>), CreateReq(maintainer, hpc, user, password))>>
    /\ response' = None
    /\ UNCHANGED <<files, pc, locals, before>>
    /\ UNCHANGED ui

\* a restoration that writes the identity file back with the caller's maintainer
init_restore_rewrites(maintainer, hpc, id, user, password) ==
    /\ pc = "idle"
    /\ id # None
    /\ call' = "__init__"
    /\ args' = [maintainer |-> maintainer, hpc |-> hpc, id |-> id, user |-> user, password |-> password]
    /\ IF ConstructorFile(id) \in DOMAIN files
       THEN LET constructor == files[ConstructorFile(id)]
                text == constructorText(JsonGet(constructor, "secretToken"),
                                        JsonGet(constructor, "id"),
                                        JsonGet(constructor, "hpc"),
                                        maintainer, password)
            IN /\ job' = NewJob(maintainer,
                                JsonGet(constructor, "id"),
                                JsonGet(constructor, "hpc"),
                                JsonGet(constructor, "secretToken"))
               /\ result' = Return(None)
               /\ files' = [files EXCEPT ![ConstructorFile(id)] = text]
               /\ trace' = <<FileWrite(ConstructorFile(id), text)>>
       ELSE /\ job' = NoJob
            /\ result' = Raise("constructor file not found")
            /\ trace' = <<>>
            /\ UNCHANGED files
    /\ response' = None
    /\ UNCHANGED <<pc, locals, before>>
    /\ UNCHANGED ui

\* Job(id=id, ...): lines 20-29, then 59-67.  self.maintainer was set from the
\* argument at line 17; line 27 rebinds only the local name.  The password
\* only selects the warning printed at lines 54-57.
init_restore(maintainer, hpc, id, user, password) ==
    /\ pc = "idle"
    /\ id # None
    /\ call' = "__init__"
    /\ args' = [maintainer |-> maintainer, hpc |-> hpc, id |-> id, user |-> user, password |-> password]
    /\ trace' = <<>>
    /\ IF ConstructorFile(id) \in DOMAIN files
       THEN LET constructor == files[ConstructorFile(id)]
            IN /\ job' = NewJob(maintainer,
                                JsonGet(constructor, "id"),
                                JsonGet(constructor, "hpc"),
                                JsonGet(constructor, "secretToken"))
               /\ result' = Return(None)
       ELSE /\ job' = NoJob
            /\ result' = Raise("constructor file not found")
    /\ response' = None
    /\ UNCHANGED <<files, pc, locals, before>>
    /\ UNCHANGED ui

\* a registration that asks the service before it looks at the maintainer
init_fresh_requestFirst(maintainer, hpc, user, password) ==
    /\ pc = "idle"
    /\ call' = "__init__"
    /\ args' = [maintainer |-> maintainer, hpc |-> hpc, id |-> None, user |-> user, password |-> password]
    /\ LET req == Request("POST", Str(<<"/job">>), CreateReq(maintainer, hpc, user, password))
       IN IF maintainer = None
          THEN /\ job' = NoJob
               /\ result' = Raise("maintainer cannot by NoneType")
               /\ trace' = <<req>>
               /\ response' = None
               /\ UNCHANGED files
          ELSE \/ /\ job' = NoJob
                  /\ result' = Raise("transport")
                  /\ trace' = <<req>>
                  /\ response' = None
                  /\ UNCHANGED files
               \/ \E resp \in CreateResponses :
                    LET name == ConstructorFile(resp.id)
                        text == constructorText(resp.secretToken, resp.id, resp.hpc,
                                                maintainer, password)
                    IN /\ files' = [n \in DOMAIN files \cup {name} |->
                                        IF n = name THEN text ELSE files[n]]
                       /\ job' = NewJob(maintainer, resp.id, resp.hpc, resp.secretToken)
                       /\ result' = Return(None)
                       /\ trace' = <<req, FileWrite(name, text)>>
                       /\ response' = resp
    /\ UNCHANGED <<pc, locals, before>>
    /\ UNCHANGED ui

\* a registration that opens the identity file as soon as it has the id
init_fresh_writesFirst(maintainer, hpc, user, password) ==
    /\ pc = "idle"
    /\ call' = "__init__"
    /\ args' = [maintainer |-> maintainer, hpc |-> hpc, id |-> None, user |-> user, password |-> password]
    /\ IF maintainer = None
       THEN /\ job' = NoJob
            /\ result' = Raise("maintainer cannot by NoneType")
            /\ trace' = <<>>
            /\ response' = None
            /\ UNCHANGED files
       ELSE LET req == Request("POST", Str(<<"/job">>), CreateReq(maintainer, hpc, user, password))
            IN \/ /\ job' = NoJob
                  /\ result' = Raise("transport")
                  /\ trace' = <<req>>
                  /\ response' = None
                  /\ UNCHANGED files
               \/ \E resp \in PartialCreateResponses :
                    /\ job' = NoJob
                    /\ result' = Raise("KeyError")
                    /\ response' = resp
                    /\ IF "id" \in DOMAIN resp
                       THEN LET name == ConstructorFile(resp.id)
                            IN /\ files' = [n \in DOMAIN files \cup {name} |->
                                                IF n = name THEN <<>> ELSE files[n]]
                               /\ trace' = <<req, FileWrite(name, <<>>)>>
                       ELSE /\ trace' = <<req>>
                            /\ UNCHANGED files
               \/ \E resp \in CreateResponses :
                    LET name == ConstructorFile(resp.id)
                        text == constructorText(resp.secretToken, resp.id, resp.hpc,
                                                maintainer, password)
                    IN /\ files' = [n \in DOMAIN files \cup {name} |->
                                        IF n = name THEN text ELSE files[n]]
                       /\ job' = NewJob(maintainer, resp.id, resp.hpc, resp.secretToken)
                       /\ result' = Return(None)
                       /\ trace' = <<req, FileWrite(name, text)>>
                       /\ response' = resp
    /\ UNCHANGED <<pc, locals, before>>
    /\ UNCHANGED ui

\* Job(maintainer=..., hpc=..., user=..., password=...): lines 30-52, then 59-67
init_fresh(maintainer, hpc, user, password) ==
    /\ pc = "idle"
    /\ call' = "__init__"
    /\ args' = [maintainer |-> maintainer, hpc |-> hpc, id |-> None, user |-> user, password |-> password]
    /\ IF maintainer = None
       THEN /\ job' = NoJob
            /\ result' = Raise("maintainer cannot by NoneType")
            /\ trace' = <<>>
            /\ response' = None
            /\ UNCHANGED files
       ELSE LET req == Request("POST", Str(<<"/job">>), CreateReq(maintainer, hpc, user, password))
            IN \/ \* the Transport raises
                  /\ job' = NoJob
                  /\ result' = Raise("transport")
                  /\ trace' = <<req>>
                  /\ response' = None
                  /\ UNCHANGED files
               \/ \* lines 47-49: out['hpc'], out['secretToken'], out['id'] on a response
                  \* that lacks one of them raise KeyError, before the file is opened
                  \E resp \in PartialCreateResponses :
                    /\ job' = NoJob
                    /\ result' = Raise("KeyError")
                    /\ trace' = <<req>>
                    /\ response' = resp
                    /\ UNCHANGED files
               \/ \E resp \in CreateResponses :
                    LET name == ConstructorFile(resp.id)
                        text == constructorText(resp.secretToken, resp.id, resp.hpc,
                                                maintainer, password)
                    IN /\ files' = [n \in DOMAIN files \cup {name} |->
                                        IF n = name THEN text ELSE files[n]]
                       /\ job' = NewJob(maintainer, resp.id, resp.hpc, resp.secretToken)
                       /\ result' = Return(None)
                       /\ trace' = <<req, FileWrite(name, text)>>
                       /\ response' = resp
    /\ UNCHANGED <<pc, locals, before>>
    /\ UNCHANGED ui

\* The caller builds its Job objects before it calls their methods.  __init__
\* reads the identity files and its arguments only, never what a method call
\* left behind, so every (files, job) pair a program can reach is reached.
Constructing == call \in {"none", "__init__"}

\* Job.__init__, line 20: an id selects restoration, no id selects registration
init ==
    /\ Constructing
    /\ \E maintainer \in Opt(Maintainers), hpc \in Opt(Hpcs), id \in Opt(Ids),
         user \in Opt(Users), password \in Opt(Passwords) :
          IF id # None
          THEN init_restore(maintainer, hpc, id, user, password)
          ELSE init_fresh(maintainer, hpc, user, password)

----------------------------------------------------------------------------
(* Job.status *)

EventTypes == {"INFO", "JOB_ENDED", "JOB_FAILED"}
Event(type) == [type |-> type, message |-> "msg", createdAt |-> "ts"]

RECURSIVE SeqsUpTo(_, _)
SeqsUpTo(S, n) ==
    IF n = 0 THEN {<<>>}
    ELSE LET shorter == SeqsUpTo(S, n - 1)
         IN shorter \cup {Append(s, x) : s \in {t \in shorter : Len(t) = n - 1}, x \in S}

\* events lists the service may return
EventLists == SeqsUpTo({Event(t) : t \in EventTypes}, MaxEvents)

\* a status request sent with the wrong method
StatusRequest_post(j) ==
    Request("POST", Concat(Str(<<"/job/">>), j.id), [accessToken |-> getAccessToken(j)])

\* the request of status(), lines 203-205
StatusRequest(j) ==
    Request("GET", Concat(Str(<<"/job/">>), j.id), [accessToken |-> getAccessToken(j)])

IsTerminal(type) == type = "JOB_ENDED" \/ type = "JOB_FAILED"

LogMessages == {"a", "b"}
LogEntry(message) == [message |-> message, createdAt |-> "ts"]

\* logs lists the service may return
LogLists == SeqsUpTo({LogEntry(m) : m \in LogMessages}, MaxLogs)

\* what GET /job/<id> returns: the JobStatus snapshot
Snapshots == [events : EventLists, logs : LogLists]

\* status(): line 199; self.id is never None on a constructed Job (line 200)
status_call ==
    /\ pc = "idle"
    /\ job.live
    /\ pc' = "status_fetch"
    /\ call' = "status"
    /\ args' = NoArgs
    /\ trace' = <<>>
    /\ result' = NoResult
    /\ response' = None
    /\ FreshLocals
    /\ before' = job.body
    /\ UNCHANGED <<files, job>>
    /\ UNCHANGED ui

\* lines 203-205: return self.client.request('GET', '/job/' + self.id, {accessToken})
status_fetch ==
    /\ pc = "status_fetch"
    /\ pc' = "idle"
    /\ trace' = Append(trace, StatusRequest(job))
    /\ \/ /\ result' = Raise("transport")
          /\ UNCHANGED response
       \/ \E st \in Snapshots :
            /\ response' = st
            /\ result' = Return(st)
    /\ UNCHANGED <<files, job, call, args, locals, before>>
    /\ UNCHANGED ui

----------------------------------------------------------------------------
(* Job.events *)

\* events(liveOutput, ...): line 127 and the test of line 128, then lines 131-132
events_call ==
    /\ pc = "idle"
    /\ job.live
    /\ \E liveOutput \in BOOLEAN, refreshRateInSeconds \in RefreshRates(DefaultEventsRefresh) :
        /\ args' = [liveOutput |-> liveOutput, refreshRateInSeconds |-> refreshRateInSeconds]
        /\ pc' = IF liveOutput THEN "events_status" ELSE "events_snapshot"
    /\ call' = "events"
    /\ trace' = <<>>
    /\ result' = NoResult
    /\ response' = None
    /\ FreshLocals
    /\ before' = job.body
    /\ UNCHANGED <<files, job>>
    /\ UNCHANGED ui

\* liveOutput=False, line 129: return self.status()['events']
events_snapshot ==
    /\ pc = "events_snapshot"
    /\ pc' = "idle"
    /\ trace' = Append(trace, StatusRequest(job))
    /\ \/ /\ result' = Raise("transport")
          /\ UNCHANGED response
       \/ \E st \in Snapshots :
            /\ response' = st
            /\ result' = Return(st.events)
    /\ UNCHANGED <<files, job, call, args, locals, before>>
    /\ UNCHANGED ui

\* a poll that notes a Transport failure, sleeps and tries again
events_status_retry ==
    /\ pc = "events_status"
    /\ polls < MaxPolls
    /\ polls' = polls + 1
    /\ \/ /\ trace' = trace \o <<StatusRequest(job), Sleep(args.refreshRateInSeconds)>>
          /\ result' = Raise("transport")
          /\ UNCHANGED <<pc, out, startPos>>
       \/ \E ev \in EventLists :
            /\ trace' = Append(trace, StatusRequest(job))
            /\ out' = ev
            /\ startPos' = Len(events)
            /\ pc' = "events_inner"
            /\ UNCHANGED result
    /\ UNCHANGED <<before, response, files, job, call, args, events, logs, status, isEnd>>
    /\ UNCHANGED ui

\* a poll that starts again at the first event of the snapshot
events_status_fromStart ==
    /\ pc = "events_status"
    /\ polls < MaxPolls
    /\ polls' = polls + 1
    /\ trace' = Append(trace, StatusRequest(job))
    /\ \/ /\ pc' = "idle"
          /\ result' = Raise("transport")
          /\ UNCHANGED <<out, startPos>>
       \/ \E ev \in EventLists :
            /\ out' = ev
            /\ startPos' = 0
            /\ pc' = "events_inner"
            /\ UNCHANGED result
    /\ UNCHANGED <<before, response, files, job, call, args, events, logs, status, isEnd>>
    /\ UNCHANGED ui

\* lines 133-135: out = self.status()['events']; startPos = len(events)
events_status ==
    /\ pc = "events_status"
    /\ polls < MaxPolls
    /\ polls' = polls + 1
    /\ trace' = Append(trace, StatusRequest(job))
    /\ \/ /\ pc' = "idle"
          /\ result' = Raise("transport")
          /\ UNCHANGED <<out, startPos>>
       \/ \E ev \in EventLists :
            /\ out' = ev
            /\ startPos' = Len(events)
            /\ pc' = "events_inner"
            /\ UNCHANGED result
    /\ UNCHANGED <<before, response, files, job, call, args, events, logs, status, isEnd>>
    /\ UNCHANGED ui

\* one iteration of the inner loop, lines 138-155.  The three prints concatenate
\* self.id, self.hpc and self.maintainer to a str: a None maintainer raises
\* TypeError at line 150, before the table is displayed.
events_emit ==
    /\ pc = "events_inner"
    /\ startPos < Len(out)
    /\ LET o == out[startPos + 1]
           i == <<o.type, o.message, o.createdAt>>
       IN /\ events' = Append(events, i)
          /\ isEnd' = (isEnd \/ o.type = "JOB_ENDED" \/ o.type = "JOB_FAILED")
          /\ IF job.maintainer = None
             THEN /\ pc' = "idle"
                  /\ result' = Raise("TypeError")
                  /\ UNCHANGED <<trace, startPos>>
             ELSE /\ trace' = Append(trace, Display(events'))
                  /\ startPos' = startPos + 1
                  /\ UNCHANGED <<pc, result>>
    /\ UNCHANGED <<before, response, files, job, call, args, logs, out, status, polls>>
    /\ UNCHANGED ui

\* a loop that sleeps twice between two polls
events_sleep_twice ==
    /\ pc = "events_inner"
    /\ ~(startPos < Len(out))
    /\ ~isEnd
    /\ trace' = trace \o <<Sleep(args.refreshRateInSeconds), Sleep(args.refreshRateInSeconds)>>
    /\ pc' = "events_status"
    /\ UNCHANGED <<before, response, files, job, call, args, result, events, logs, out, status, startPos, isEnd, polls>>
    /\ UNCHANGED ui

\* lines 157-158: batch exhausted, no terminal event seen
events_sleep ==
    /\ pc = "events_inner"
    /\ ~(startPos < Len(out))
    /\ ~isEnd
    /\ trace' = Append(trace, Sleep(args.refreshRateInSeconds))
    /\ pc' = "events_status"
    /\ UNCHANGED <<before, response, files, job, call, args, result, events, logs, out, status, startPos, isEnd, polls>>
    /\ UNCHANGED ui

\* a loop that leaves as soon as a terminal event was seen, unseen events or not
events_return_midbatch ==
    /\ pc = "events_inner"
    /\ isEnd
    /\ pc' = "idle"
    /\ result' = Return(None)
    /\ UNCHANGED <<before, response, files, job, call, args, trace, locals>>
    /\ UNCHANGED ui

\* line 133: the loop condition fails, the call returns None
events_return ==
    /\ pc = "events_inner"
    /\ ~(startPos < Len(out))
    /\ isEnd
    /\ pc' = "idle"
    /\ result' = Return(None)
    /\ UNCHANGED <<before, response, files, job, call, args, trace, locals>>
    /\ UNCHANGED ui

----------------------------------------------------------------------------
(* Job.logs *)

\* logs(liveOutput, ...): line 160 and the test of line 161, then lines 164-165
logs_call ==
    /\ pc = "idle"
    /\ job.live
    /\ \E liveOutput \in BOOLEAN, refreshRateInSeconds \in RefreshRates(DefaultLogsRefresh) :
        /\ args' = [liveOutput |-> liveOutput, refreshRateInSeconds |-> refreshRateInSeconds]
        /\ pc' = IF liveOutput THEN "logs_status" ELSE "logs_snapshot"
    /\ call' = "logs"
    /\ trace' = <<>>
    /\ result' = NoResult
    /\ response' = None
    /\ FreshLocals
    /\ before' = job.body
    /\ UNCHANGED <<files, job>>
    /\ UNCHANGED ui

\* liveOutput=False, line 162: return self.status()['logs']
logs_snapshot ==
    /\ pc = "logs_snapshot"
    /\ pc' = "idle"
    /\ trace' = Append(trace, StatusRequest(job))
    /\ \/ /\ result' = Raise("transport")
          /\ UNCHANGED response
       \/ \E st \in Snapshots :
            /\ response' = st
            /\ result' = Return(st.logs)
    /\ UNCHANGED <<files, job, call, args, locals, before>>
    /\ UNCHANGED ui

\* a poll that starts again at the first log entry of the snapshot
logs_status_fromStart ==
    /\ pc = "logs_status"
    /\ polls < MaxPolls
    /\ polls' = polls + 1
    /\ trace' = Append(trace, StatusRequest(job))
    /\ \/ /\ pc' = "idle"
          /\ result' = Raise("transport")
          /\ UNCHANGED <<status, startPos>>
       \/ \E ev \in EventLists, lg \in LogLists :
            /\ status' = [events |-> ev, logs |-> lg]
            /\ startPos' = 0
            /\ pc' = "logs_inner"
            /\ UNCHANGED result
    /\ UNCHANGED <<before, response, files, job, call, args, events, logs, out, isEnd>>
    /\ UNCHANGED ui

\* lines 166-168: status = self.status(); startPos = len(logs)
logs_status ==
    /\ pc = "logs_status"
    /\ polls < MaxPolls
    /\ polls' = polls + 1
    /\ trace' = Append(trace, StatusRequest(job))
    /\ \/ /\ pc' = "idle"
          /\ result' = Raise("transport")
          /\ UNCHANGED <<status, startPos>>
       \/ \E ev \in EventLists, lg \in LogLists :
            /\ status' = [events |-> ev, logs |-> lg]
            /\ startPos' = Len(logs)
            /\ pc' = "logs_inner"
            /\ UNCHANGED result
    /\ UNCHANGED <<before, response, files, job, call, args, events, logs, out, isEnd>>
    /\ UNCHANGED ui

\* one iteration of the first inner loop, lines 171-186; line 181 raises
\* TypeError for a None maintainer, before the table is displayed
logs_emit ==
    /\ pc = "logs_inner"
    /\ startPos < Len(status.logs)
    /\ LET o == status.logs[startPos + 1]
           i == <<o.message, o.createdAt>>
       IN /\ logs' = Append(logs, i)
          /\ IF job.maintainer = None
             THEN /\ pc' = "idle"
                  /\ result' = Raise("TypeError")
                  /\ UNCHANGED <<trace, startPos>>
             ELSE /\ trace' = Append(trace, Display(logs'))
                  /\ startPos' = startPos + 1
                  /\ UNCHANGED <<pc, result>>
    /\ UNCHANGED <<before, response, files, job, call, args, events, out, status, isEnd, polls>>
    /\ UNCHANGED ui

\* the scan of lines 188-194, from index i with isEnd = e
RECURSIVE scanEvents(_, _, _)
scanEvents(evs, i, e) ==
    IF i < Len(evs)
    THEN LET eventType == evs[i + 1].type
             e2 == (eventType = "JOB_ENDED" \/ eventType = "JOB_FAILED")
         IN IF e2 THEN e2 ELSE scanEvents(evs, i + 1, e2)
    ELSE e

\* line 196: `if isEnd:` guards the sleep
sleepWhenEnded(e) == e

\* lines 188-197 and the loop test of line 166, once the logs are flushed
logs_cycle_end ==
    /\ pc = "logs_inner"
    /\ ~(startPos < Len(status.logs))
    /\ LET e == scanEvents(status.events, 0, isEnd)
       IN /\ isEnd' = e
          /\ trace' = IF sleepWhenEnded(e) THEN Append(trace, Sleep(args.refreshRateInSeconds)) ELSE trace
          /\ IF e
             THEN /\ pc' = "idle"
                  /\ result' = Return(None)
                  /\ UNCHANGED status
             ELSE /\ pc' = "logs_status"
                  /\ UNCHANGED result
    /\ UNCHANGED <<before, response, files, job, call, args, events, logs, out, status, startPos, polls>>
    /\ UNCHANGED ui

----------------------------------------------------------------------------
(* Job.set *)

Fields == {"executableFolder", "dataFolder", "resultFolder", "param", "env", "slurm"}

FolderRefs == {Str(<<>>), Str(<<"f1">>)}
Maps == {Dict({}), Dict({<<"k", "v">>})}

ValuesOf(f) == IF f \in {"param", "env", "slurm"} THEN Maps ELSE FolderRefs

\* the sets of arguments one call of set may give: at most MaxArgs of them
GivenSets == {S \in SUBSET Fields : Cardinality(S) <= MaxArgs}

\* the argument list that gives v[f] for f in S and leaves the others None
SetArgs(S, v) == [f \in Fields |-> IF f \in S THEN v[f] ELSE None]

\* a replace instead of a merge: the keys not given go back to their defaults
setBody_replace(body, a) ==
    [f \in DOMAIN InitBody \cup {g \in Fields : Truthy(a[g])} |->
        IF f \in Fields /\ Truthy(a[f]) THEN a[f] ELSE InitBody[f]]

\* lines 113-124: six `if <argument>:` tests, each assigning one key of self.body
setBody(body, a) ==
    [f \in DOMAIN body \cup {g \in Fields : Truthy(a[g])} |->
        IF f \in Fields /\ Truthy(a[f]) THEN a[f] ELSE body[f]]

Printed(v) == [k |-> "print", value |-> v]

\* set(...): lines 112-125
set ==
    /\ pc = "idle"
    /\ job.live
    /\ \E S \in GivenSets : \E v \in [S -> FolderRefs \cup Maps] :
        /\ \A f \in S : v[f] \in ValuesOf(f)
        /\ LET a == SetArgs(S, v)
           IN /\ call' = "set"
              /\ args' = a
              /\ before' = job.body
              /\ job' = [job EXCEPT !.body = setBody(job.body, a)]
              /\ trace' = <<Printed(setBody(job.body, a))>>
              /\ result' = Return(None)
    /\ UNCHANGED <<files, pc, locals, response>>
    /\ UNCHANGED ui

----------------------------------------------------------------------------
(* Job.submit *)

\* a snapshot that copies every key of self.body, None or not
getBodyForRequest_withNulls(j) ==
    [i \in {"accessToken"} \cup DOMAIN j.body |->
        IF i = "accessToken" THEN getAccessToken(j) ELSE j.body[i]]

\* lines 256-262: the access token and every key of self.body whose value is not None
getBodyForRequest(j) ==
    [i \in {"accessToken"} \cup {f \in DOMAIN j.body : j.body[f] # None} |->
        IF i = "accessToken" THEN getAccessToken(j) ELSE j.body[i]]

\* job records the service may return for the submit action
JobRecords ==
    {[id |-> i, maintainer |-> m, hpc |-> h, executableFolder |-> Str(<<"f1">>),
      dataFolder |-> None, resultFolder |-> None, param |-> Dict({}), slurm |-> Dict({}),
      createdAt |-> Str(<<"ts">>)] : i \in Ids, m \in Maintainers, h \in Hpcs}

\* json.dumps(v): the JSON text of v
jsonDumps(v) == [t |-> "json", of |-> v]

\* lines 76-87: the one row of the table submit displays
SubmitRow(r) ==
    <<r.id, r.maintainer, r.hpc, r.executableFolder, r.dataFolder, r.resultFolder,
      jsonDumps(r.param), jsonDumps(r.slurm), r.createdAt>>

\* the Job object itself, as a return value
Self == [t |-> "object", class |-> "Job"]

\* a submit that hands back the record the service returned
submitReturn_record(self, record) == record

\* line 94: return self
submitReturn(self, record) == self

\* line 70: the PUT of the configuration
submit_put ==
    /\ pc = "idle"
    /\ job.live
    /\ call' = "submit"
    /\ args' = NoArgs
    /\ before' = job.body
    /\ trace' = <<Request("PUT", Concat(Str(<<"/job/">>), job.id), getBodyForRequest(job))>>
    /\ response' = None
    /\ \/ /\ pc' = "idle"
          /\ result' = Raise("transport")
       \/ /\ pc' = "submit_post"
          /\ result' = NoResult
    /\ FreshLocals
    /\ UNCHANGED <<files, job>>
    /\ UNCHANGED ui

\* a submit that takes the identity of the returned job record
submit_post_adoptsRecord ==
    /\ pc = "submit_post"
    /\ pc' = "idle"
    /\ LET req == Request("POST",
                           Concat(Concat(Str(<<"/job/">>), job.id), Str(<<"/submit">>)),
                           [accessToken |-> getAccessToken(job)])
       IN \/ /\ trace' = Append(trace, req)
             /\ result' = Raise("transport")
             /\ UNCHANGED <<response, job>>
          \/ \E record \in JobRecords :
                /\ response' = record
                /\ trace' = trace \o <<req, Display(<<SubmitRow(record)>>)>>
                /\ result' = Return(submitReturn(Self, record))
                /\ job' = [job EXCEPT !.id = record.id, !.hpc = record.hpc,
                                      !.maintainer = record.maintainer]
    /\ UNCHANGED <<files, call, args, locals, before>>
    /\ UNCHANGED ui

\* lines 71-94: the submit action, the table, return self
submit_post ==
    /\ pc = "submit_post"
    /\ pc' = "idle"
    /\ LET req == Request("POST",
                           Concat(Concat(Str(<<"/job/">>), job.id), Str(<<"/submit">>)),
                           [accessToken |-> getAccessToken(job)])
       IN \/ /\ trace' = Append(trace, req)
             /\ result' = Raise("transport")
             /\ UNCHANGED response
          \/ \E record \in JobRecords :
                /\ response' = record
                /\ trace' = trace \o <<req, Display(<<SubmitRow(record)>>)>>
                /\ result' = Return(submitReturn(Self, record))
    /\ UNCHANGED <<files, job, call, args, locals, before>>
    /\ UNCHANGED ui

----------------------------------------------------------------------------
(* Job.downloadResultFolder *)

\* a result locator is a string over these tokens; none of the words contains ':' or '/'
LocTokens == {"local", "globus", "x", ":", "/"}

\* values of the resultFolder key the service may return
Locators == {Str(s) : s \in SeqsUpTo(LocTokens, MaxLocLen)}

Dirs == {Str(<<"d">>)}
LocalPaths == {Str(<<"p1">>), Str(<<"p2">>)}
TransferResponses == {Dict({}), Dict({<<"task", "t1">>})}

IsSeparatorAt(s, i) ==
    i + 2 <= Len(s) /\ s[i] = ":" /\ s[i + 1] = "/" /\ s[i + 2] = "/"

\* s.split('://', 1): cut at the first separator only
RECURSIVE splitOnce(_, _, _)
splitOnce(s, i, cur) ==
    IF i > Len(s) THEN <<cur>>
    ELSE IF IsSeparatorAt(s, i) THEN <<cur, SubSeq(s, i + 3, Len(s))>>
    ELSE splitOnce(s, i + 1, Append(cur, s[i]))

\* s.split('://'): the pieces between the separators, scanning from the left
RECURSIVE split(_, _, _)
split(s, i, cur) ==
    IF i > Len(s) THEN <<cur>>
    ELSE IF IsSeparatorAt(s, i) THEN <<cur>> \o split(s, i + 3, <<>>)
    ELSE split(s, i + 1, Append(cur, s[i]))

\* a join that only concatenates
pathJoin_concat(a, b) == Concat(a, b)

\* os.path.join(a, b)
pathJoin(a, b) ==
    IF Len(b.s) > 0 /\ b.s[1] = "/" THEN b
    ELSE IF Len(a.s) = 0 \/ a.s[Len(a.s)] = "/" THEN Concat(a, b)
    ELSE Concat(Concat(a, Str(<<"/">>)), b)

\* a transfer request that names the identifier instead of the locator
FileRequest_identifier(j, fileUrl) ==
    Request("GET", Str(<<"/file">>),
            [accessToken |-> getAccessToken(j), fileUrl |-> Str(split(fileUrl.s, 1, <<>>)[2])])

\* lines 224-227: self.client.request('GET', '/file', {accessToken, fileUrl})
FileRequest(j, fileUrl) ==
    Request("GET", Str(<<"/file">>), [accessToken |-> getAccessToken(j), fileUrl |-> fileUrl])

\* lines 231-234: self.client.download('GET', '/file', {accessToken, fileUrl}, dir)
Download(j, fileUrl, dir) ==
    [k |-> "download", method |-> "GET", path |-> Str(<<"/file">>),
     body |-> [accessToken |-> getAccessToken(j), fileUrl |-> fileUrl], dir |-> dir]

\* a test that accepts every scheme that starts with the name
isScheme_prefix(fileType, name) ==
    Len(fileType.s) >= 1 /\ fileType.s[1] = name

\* lines 223 and 229: fileType == 'globus', fileType == 'local'
isScheme(fileType, name) == fileType = Str(<<name>>)

\* downloadResultFolder(dir): line 207
downloadResultFolder_call ==
    /\ pc = "idle"
    /\ job.live
    /\ \E dir \in Opt(Dirs) : args' = [dir |-> dir]
    /\ call' = "downloadResultFolder"
    /\ pc' = "download_status"
    /\ trace' = <<>>
    /\ result' = NoResult
    /\ response' = None
    /\ before' = job.body
    /\ FreshLocals
    /\ UNCHANGED <<files, job>>
    /\ UNCHANGED ui

\* lines 208-218: the status fetch and the two checks of the locator
downloadResultFolder_status ==
    /\ pc = "download_status"
    /\ trace' = Append(trace, StatusRequest(job))
    /\ \/ /\ result' = Raise("transport")
          /\ pc' = "idle"
          /\ UNCHANGED status
       \/ \* the status has no resultFolder key
          /\ status' = NoStatus
          /\ result' = Raise("executable folder is not ready")
          /\ pc' = "idle"
       \/ \* the key is there and holds null: None has no split
          /\ status' = [events |-> <<>>, logs |-> <<>>, resultFolder |-> None]
          /\ result' = Raise("AttributeError")
          /\ pc' = "idle"
       \/ \E loc \in Locators :
            /\ status' = [events |-> <<>>, logs |-> <<>>, resultFolder |-> loc]
            /\ IF Len(split(loc.s, 1, <<>>)) # 2
               THEN /\ result' = Raise("invalid result folder formate provided")
                    /\ pc' = "idle"
               ELSE /\ pc' = "download_dispatch"
                    /\ UNCHANGED result
    /\ UNCHANGED <<files, job, call, args, events, logs, out, startPos, isEnd, polls, before, response>>
    /\ UNCHANGED ui

\* lines 220-236: dispatch on the scheme
downloadResultFolder_dispatch ==
    /\ pc = "download_dispatch"
    /\ pc' = "idle"
    /\ LET i == split(status.resultFolder.s, 1, <<>>)
           fileType == Str(i[1])
           fileId == Str(i[2])
       IN IF isScheme(fileType, "globus")
          THEN /\ trace' = Append(trace, FileRequest(job, status.resultFolder))
               /\ \/ /\ result' = Raise("transport")
                     /\ UNCHANGED response
                  \/ \E r \in TransferResponses :
                        /\ response' = r
                        /\ result' = Return(r)
          ELSE IF isScheme(fileType, "local")
          THEN IF args.dir = None
               THEN \* os.path.join(None, fileId)
                    /\ result' = Raise("TypeError")
                    /\ UNCHANGED <<trace, response>>
               ELSE LET dir == pathJoin(args.dir, fileId)
                    IN /\ trace' = Append(trace, Download(job, status.resultFolder, dir))
                       /\ \/ /\ result' = Raise("transport")
                             /\ UNCHANGED response
                          \/ \E p \in LocalPaths :
                                /\ response' = p
                                /\ result' = Return(p)
          ELSE /\ result' = Return(None)
               /\ UNCHANGED <<trace, response>>
    /\ UNCHANGED <<files, job, call, args, locals, before>>
    /\ UNCHANGED ui

----------------------------------------------------------------------------
(* Job.uploadExecutableFolder *)

\* os.path.abspath(folder_path): an absolute path, as a string of characters
FolderPaths == {Str(<<"/", "a">>)}

\* names of the directories and of the files found below the folder
DirNames == {"a", "s"}
FileNames == {"f"}

\* a file of the folder: the directories that lead to it from the folder, and its name
FolderFiles == SeqsUpTo(DirNames, MaxDepth) \X FileNames

\* what the folder may hold
Trees == SUBSET FolderFiles

\* `root` of os.walk for the directory reached through dirs
RECURSIVE walkRoot(_, _)
walkRoot(folder_path, dirs) ==
    IF dirs = <<>> THEN folder_path
    ELSE walkRoot(Concat(folder_path, Str(<<"/", Head(dirs)>>)), Tail(dirs))

IsOccurrenceAt(s, old, i) ==
    i + Len(old) - 1 <= Len(s) /\ SubSeq(s, i, i + Len(old) - 1) = old

\* s.replace(old, ''): every occurrence of old is removed, scanning from the left
RECURSIVE replace(_, _, _)
replace(s, old, i) ==
    IF i > Len(s) THEN <<>>
    ELSE IF IsOccurrenceAt(s, old, i) THEN replace(s, old, i + Len(old))
    ELSE <<s[i]>> \o replace(s, old, i + 1)

\* line 103: p = os.path.join(root.replace(folder_path, ''), f)
stagedPath(folder_path, dirs, f) ==
    pathJoin(Str(replace(walkRoot(folder_path, dirs).s, folder_path.s, 1)), Str(<<f>>))

\* lines 99-104: the entries appended to the Zip, each with the content of its file
zipOf(folder_path, tree) ==
    {[path |-> stagedPath(folder_path, file[1], file[2]), content |-> file] : file \in tree}

\* an upload sent without the access token
Upload_noToken(j, payload) ==
    [k |-> "upload", path |-> Str(<<"/file">>), body |-> [x \in {} |-> None], file |-> payload]

\* lines 106-108: self.client.upload('/file', {accessToken}, zip.read())
Upload(j, payload) ==
    [k |-> "upload", path |-> Str(<<"/file">>),
     body |-> [accessToken |-> getAccessToken(j)], file |-> payload]

UploadResponses == {[file |-> Str(<<"u1">>)]}

\* uploadExecutableFolder(folder_path): lines 96-97
uploadExecutableFolder_call ==
    /\ pc = "idle"
    /\ job.live
    /\ \E folder_path \in FolderPaths : args' = [folder_path |-> folder_path]
    /\ call' = "uploadExecutableFolder"
    /\ pc' = "upload"
    /\ trace' = <<>>
    /\ result' = NoResult
    /\ response' = None
    /\ before' = job.body
    /\ FreshLocals
    /\ UNCHANGED <<files, job>>
    /\ UNCHANGED ui

\* an upload that starts the configuration again from the uploaded folder
uploadExecutableFolder_upload_resets ==
    /\ pc = "upload"
    /\ pc' = "idle"
    /\ \E tree \in Trees :
        /\ trace' = Append(trace, Upload(job, zipOf(args.folder_path, tree)))
        /\ \/ /\ result' = Raise("transport")
              /\ UNCHANGED <<job, response>>
           \/ \E r \in UploadResponses :
                /\ response' = r
                /\ job' = [job EXCEPT !.body = [InitBody EXCEPT !.executableFolder = r.file]]
                /\ result' = Return(r)
    /\ UNCHANGED <<files, call, args, locals, before>>
    /\ UNCHANGED ui

\* lines 99-110: the walk, the upload, the assignment to self.body
uploadExecutableFolder_upload ==
    /\ pc = "upload"
    /\ pc' = "idle"
    /\ \E tree \in Trees :
        /\ trace' = Append(trace, Upload(job, zipOf(args.folder_path, tree)))
        /\ \/ /\ result' = Raise("transport")
              /\ UNCHANGED <<job, response>>
           \/ \E r \in UploadResponses :
                /\ response' = r
                /\ job' = [job EXCEPT !.body.executableFolder = r.file]
                /\ result' = Return(r)
    /\ UNCHANGED <<files, call, args, locals, before>>
    /\ UNCHANGED ui

----------------------------------------------------------------------------
(* Job.queryGlobusTaskStatus *)

\* lines 242-244: the request of queryGlobusTaskStatus
GlobusTaskStatusRequest(j) ==
    Request("GET", Concat(Concat(Str(<<"/file/">>), j.id), Str(<<"/globus_task_status">>)),
            [accessToken |-> getAccessToken(j)])

\* queryGlobusTaskStatus(): lines 238-244; self.id is never None on a constructed Job
queryGlobusTaskStatus ==
    /\ pc = "idle"
    /\ job.live
    /\ call' = "queryGlobusTaskStatus"
    /\ args' = NoArgs
    /\ trace' = <<GlobusTaskStatusRequest(job)>>
    /\ \/ /\ result' = Raise("transport")
          /\ response' = None
       \/ \E r \in TransferResponses :
            /\ response' = r
            /\ result' = Return(r)
    /\ before' = job.body
    /\ FreshLocals
    /\ UNCHANGED <<files, job, pc>>
    /\ UNCHANGED ui

----------------------------------------------------------------------------
NextEvents == init \/ events_snapshot \/ events_call \/ events_status \/ events_emit \/ events_sleep \/ events_return

SpecEvents == Init /\ [][NextEvents]_vars

Next == init \/ set \/ submit_put \/ submit_post

Spec == Init /\ [][Next]_vars

NextDownload ==
    init \/ downloadResultFolder_call \/ downloadResultFolder_status \/ downloadResultFolder_dispatch

SpecDownload == Init /\ [][NextDownload]_vars

NextLogs == init \/ logs_snapshot \/ logs_call \/ logs_status \/ logs_emit \/ logs_cycle_end

SpecLogs == Init /\ [][NextLogs]_vars

\* construction, upload and the reads of the status
NextStatus ==
    \/ init
    \/ uploadExecutableFolder_call \/ uploadExecutableFolder_upload
    \/ status_call \/ status_fetch
    \/ events_call \/ events_snapshot \/ events_status \/ events_emit \/ events_sleep \/ events_return
    \/ logs_call \/ logs_snapshot \/ logs_status \/ logs_emit \/ logs_cycle_end

SpecStatus == Init /\ [][NextStatus]_vars

\* every operation of a Job that calls the Transport
NextCalls ==
    \/ init
    \/ uploadExecutableFolder_call \/ uploadExecutableFolder_upload
    \/ status_call \/ status_fetch
    \/ events_call \/ events_snapshot \/ events_status \/ events_emit \/ events_sleep \/ events_return
    \/ logs_call \/ logs_snapshot \/ logs_status \/ logs_emit \/ logs_cycle_end
    \/ submit_put \/ submit_post
    \/ downloadResultFolder_call \/ downloadResultFolder_status \/ downloadResultFolder_dispatch
    \/ queryGlobusTaskStatus

SpecCalls == Init /\ [][NextCalls]_vars

IsPrefix(a, b) == Len(a) <= Len(b) /\ SubSeq(b, 1, Len(a)) = a

\* a poll of events answered by an append-only service: the snapshot extends the last one
events_status_appendOnly == events_status /\ IsPrefix(out, out')

\* events() against a service whose events list only grows
NextEventsAppend ==
    \/ init
    \/ events_call \/ events_snapshot \/ events_status_appendOnly
    \/ events_emit \/ events_sleep \/ events_return

SpecEventsAppend == Init /\ [][NextEventsAppend]_vars

\* a poll of logs answered by an append-only service: both lists extend the last ones
logs_status_appendOnly ==
    /\ logs_status
    /\ IsPrefix(status.events, status'.events)
    /\ IsPrefix(status.logs, status'.logs)

\* logs() against a service whose events and logs lists only grow
NextLogsAppend ==
    \/ init
    \/ logs_call \/ logs_snapshot \/ logs_status_appendOnly
    \/ logs_emit \/ logs_cycle_end

SpecLogsAppend == Init /\ [][NextLogsAppend]_vars

\* construction only
NextInit == init

SpecInit == Init /\ [][NextInit]_vars

\* construction and configuration
NextSet == init \/ set

SpecSet == Init /\ [][NextSet]_vars

\* a locator of at most one token, or a scheme, "://" and at most one more token
IsShortLocator(loc) ==
    \/ Len(loc.s) <= 1
    \/ /\ Len(loc.s) \in {4, 5}
       /\ SubSeq(loc.s, 2, 4) = <<":", "/", "/">>

\* the answer the step receives is short: at most one event and one log entry in a
\* snapshot, a short locator in the status of a download
ShortAnswers ==
    /\ Len(out') <= 1
    /\ Len(status'.events) <= 1
    /\ Len(status'.logs) <= 1
    /\ "resultFolder" \in DOMAIN status' =>
          (status'.resultFolder = None \/ IsShortLocator(status'.resultFolder))
    /\ "events" \in DOMAIN response' =>
          (Len(response'.events) <= 1 /\ Len(response'.logs) <= 1)

\* construction, configuration and upload
NextUpload == init \/ set \/ uploadExecutableFolder_call \/ uploadExecutableFolder_upload

SpecUpload == Init /\ [][NextUpload]_vars

\* the first configuration of a Job: set on the configuration left by __init__
set_first == set /\ job.body = InitBody

\* every operation of a Job, the service giving short answers
NextJob ==
    \/ init
    \/ set_first
    \/ uploadExecutableFolder_call \/ uploadExecutableFolder_upload
    \/ submit_put \/ submit_post
    \/ status_call \/ (status_fetch /\ ShortAnswers)
    \/ events_call \/ (events_snapshot /\ ShortAnswers) \/ (events_status /\ ShortAnswers)
    \/ events_emit \/ events_sleep \/ events_return
    \/ logs_call \/ (logs_snapshot /\ ShortAnswers) \/ (logs_status /\ ShortAnswers)
    \/ logs_emit \/ logs_cycle_end
    \/ downloadResultFolder_call \/ (downloadResultFolder_status /\ ShortAnswers)
    \/ downloadResultFolder_dispatch
    \/ queryGlobusTaskStatus

SpecJob == Init /\ [][NextJob]_vars

\* construction and the two polling calls
NextLive ==
    \/ init
    \/ events_call \/ events_snapshot \/ events_status \/ events_emit \/ events_sleep \/ events_return
    \/ logs_call \/ logs_snapshot \/ logs_status \/ logs_emit \/ logs_cycle_end

SpecLive == Init /\ [][NextLive]_vars

----------------------------------------------------------------------------
(* UI.py: the notebook UI.  Its click handlers run one at a time, each to  *)
(* its end.  self.compute, the job it creates and the service are the      *)
(* environment: every call on them returns or raises.                      *)

\* a call of the handler on self.compute or on self.compute.job, and whether it returned
Called(name, ok) == [name |-> name, ok |-> ok]

\* lines 833-835: job_list_size after the cap by the number of listed jobs
cappedSize(size, n) == IF n < size THEN n ELSE size

\* line 836: range(len(jobs) - 1, len(jobs) - job_list_size - 1, -1)
listedRange(size, n) == {i \in (n - size - 1)..(n - 1) : i > n - size - 1}

\* renderRecentlySubmittedJobs, lines 825-848, when the service lists n jobs
renderRecentlySubmittedJobs(n) ==
    /\ job_list_size' = cappedSize(job_list_size, n)
    /\ listed' = listedRange(cappedSize(job_list_size, n), n)

\* UI.render, lines 76-153: init (1105-1148), every component rendered, the tabs displayed
render ==
    /\ ~rendered
    /\ handler' = "render"
    /\ \/ \* login, list_git, list_hpc or a request raised: nothing is displayed
          /\ given' = NoArgs
          /\ effects' = <<Called("login", FALSE)>>
          /\ UNCHANGED <<rendered, submitted, jobFinished, downloading, refreshing,
                         jupyter_globus, folderPage, totalJobs, pageButtons, job_list_size,
                         listed, downloadButton, submitNewButton>>
       \/ \E n \in 0..MaxJobs, c \in 0..MaxFolders :
            /\ given' = [jobs |-> n]
            /\ effects' = <<Called("login", TRUE)>>
            /\ rendered' = TRUE
            /\ submitted' = FALSE
            /\ jobFinished' = FALSE
            /\ downloading' = FALSE
            /\ refreshing' = FALSE
            /\ folderPage' = 0
            /\ job_list_size' = cappedSize(InitialJobListSize, n)
            /\ listed' = listedRange(cappedSize(InitialJobListSize, n), n)
            /\ totalJobs' = c
            /\ pageButtons' = TRUE
            /\ downloadButton' = FALSE
            /\ submitNewButton' = FALSE
            /\ UNCHANGED jupyter_globus
    /\ UNCHANGED jobVars

\* what the user entered before a Submit click
SubmitInputs ==
    [local_hpc : BOOLEAN,             \* data['computing_resource'] == 'local_hpc'
     require_upload_data : BOOLEAN,   \* self.job['require_upload_data']
     selected : BOOLEAN]              \* self.uploadData['selector'].selected is not None

\* what job.logs() and result_folder_content() do during the rerender of a Submit or a
\* Restore click, and whether an exception leaves the handler after submitted = True
Rerenders == [logsReturned : BOOLEAN, contentOk : BOOLEAN, reachedEnd : BOOLEAN]

SubmitCalls == {"login", "get_user_jupyter_globus", "create_job", "set", "submit"}
RestoreCalls == {"get_job_by_id", "get_user_jupyter_globus"}

\* the calls of lines 926-973 in order, up to and including the one that raises
submitCalls(g, failsAt) ==
    LET globus == IF g.local_hpc THEN <<>> ELSE <<"get_user_jupyter_globus">>
        names == <<"login">> \o globus \o <<"create_job", "set", "submit">>
        stop == {i \in 1..Len(names) : names[i] = failsAt}
        last == IF stop = {} THEN Len(names) ELSE CHOOSE i \in stop : TRUE
    IN [i \in 1..last |-> Called(names[i], names[i] # failsAt)]

\* the part of the handlers after self.submitted = True: rerender of the result
\* components (lines 521-585), of the recent jobs and of the Submit New Job button
afterSubmitted(r) ==
    /\ jobFinished' = (jobFinished \/ r.logsReturned)
    /\ downloadButton' = IF r.logsReturned THEN r.contentOk ELSE downloadButton
    /\ IF r.reachedEnd
       THEN /\ \E n \in 0..MaxJobs : renderRecentlySubmittedJobs(n)
            /\ submitNewButton' = TRUE
       ELSE UNCHANGED <<job_list_size, listed, submitNewButton>>

\* a click that sets submitted although job.submit() raised
onSubmitButtonClick_early ==
    /\ rendered
    /\ handler' = "onSubmitButtonClick"
    /\ \E g \in SubmitInputs :
         /\ ~g.require_upload_data
         /\ given' = g
         /\ effects' = submitCalls(g, "submit")
         /\ submitted' = TRUE
         /\ jupyter_globus' = (jupyter_globus \/ ~g.local_hpc)
         /\ UNCHANGED <<jobFinished, downloadButton, job_list_size, listed, submitNewButton>>
    /\ UNCHANGED <<rendered, downloading, refreshing, folderPage, totalJobs, pageButtons>>
    /\ UNCHANGED jobVars

\* the on_click of onSubmitButtonClick, lines 916-992
onSubmitButtonClick ==
    /\ rendered
    /\ handler' = "onSubmitButtonClick"
    /\ \E g \in SubmitInputs :
         /\ given' = g
         /\ IF submitted
            THEN \* lines 921-922
                 /\ effects' = <<>>
                 /\ UNCHANGED <<submitted, jupyter_globus, jobFinished, downloadButton,
                                job_list_size, listed, submitNewButton>>
            ELSE \E failsAt \in SubmitCalls \cup {"none"} :
                 IF failsAt = "login" \/ (~g.local_hpc /\ failsAt = "get_user_jupyter_globus")
                 THEN \* lines 926-930: the exception leaves the handler
                      /\ effects' = submitCalls(g, failsAt)
                      /\ UNCHANGED <<submitted, jupyter_globus, jobFinished, downloadButton,
                                     job_list_size, listed, submitNewButton>>
                 ELSE LET globus == jupyter_globus \/ ~g.local_hpc
                          calls == submitCalls(g, failsAt)
                      IN /\ jupyter_globus' = globus
                         /\ IF g.require_upload_data /\ (~g.selected \/ ~globus)
                            THEN \* lines 933-936: no folder selected, return; line 938 on
                                 \* a jupyter_globus that is None: TypeError
                                 /\ effects' = SubSeq(calls, 1, IF g.local_hpc THEN 1 ELSE 2)
                                 /\ UNCHANGED <<submitted, jobFinished, downloadButton,
                                                job_list_size, listed, submitNewButton>>
                            ELSE /\ effects' = calls
                                 /\ IF failsAt \in {"create_job", "set", "submit"}
                                    THEN \* lines 945-954: create_job raised, return;
                                         \* lines 972-973: the exception leaves the handler
                                         UNCHANGED <<submitted, jobFinished, downloadButton,
                                                     job_list_size, listed, submitNewButton>>
                                    ELSE \* line 975
                                         /\ submitted' = TRUE
                                         /\ \E r \in Rerenders : afterSubmitted(r)
    /\ UNCHANGED <<rendered, downloading, refreshing, folderPage, totalJobs, pageButtons>>
    /\ UNCHANGED jobVars

\* the on_click of onSubmitNewButtonClick, lines 907-912: with submitted False the
\* result components render nothing and renderSubmitNew displays no button
onSubmitNewButtonClick ==
    /\ submitNewButton
    /\ handler' = "onSubmitNewButtonClick"
    /\ given' = NoArgs
    /\ effects' = <<>>
    /\ submitted' = FALSE
    /\ submitNewButton' = FALSE
    /\ UNCHANGED <<rendered, jobFinished, downloading, refreshing, jupyter_globus, folderPage,
                   totalJobs, pageButtons, job_list_size, listed, downloadButton>>
    /\ UNCHANGED jobVars

\* the on_click of onJobEntryButtonClick, lines 1045-1060, of any Restore button displayed
onJobEntryButtonClick ==
    /\ rendered
    /\ listed # {}
    /\ handler' = "onJobEntryButtonClick"
    /\ given' = NoArgs
    /\ \E failsAt \in RestoreCalls \cup {"none"} :
         IF failsAt = "get_job_by_id"
         THEN /\ effects' = <<Called("get_job_by_id", FALSE)>>
              /\ UNCHANGED <<submitted, jupyter_globus, jobFinished, downloadButton,
                             job_list_size, listed, submitNewButton, refreshing>>
         ELSE IF failsAt = "get_user_jupyter_globus"
         THEN /\ effects' = <<Called("get_job_by_id", TRUE),
                              Called("get_user_jupyter_globus", FALSE)>>
              /\ UNCHANGED <<submitted, jupyter_globus, jobFinished, downloadButton,
                             job_list_size, listed, submitNewButton, refreshing>>
         ELSE /\ effects' = <<Called("get_job_by_id", TRUE),
                              Called("get_user_jupyter_globus", TRUE)>>
              /\ jupyter_globus' = TRUE
              /\ submitted' = TRUE
              /\ \E r \in Rerenders :
                    /\ afterSubmitted(r)
                    /\ refreshing' = IF r.reachedEnd THEN FALSE ELSE refreshing
    /\ UNCHANGED <<rendered, downloading, folderPage, totalJobs, pageButtons>>
    /\ UNCHANGED jobVars

\* what the service does during a Download click
DownloadAnswers ==
    [failsAt : {"request", "download_result_folder_by_globus", "none"}, jobs : 0..MaxJobs]

\* the on_click of onDownloadButtonClick, lines 867-902
onDownloadButtonClick ==
    /\ downloadButton
    /\ handler' = "onDownloadButtonClick"
    /\ given' = NoArgs
    /\ \E a \in DownloadAnswers :
         IF downloading
         THEN \* lines 872-877
              /\ effects' = <<>>
              /\ UNCHANGED <<refreshing, downloading, job_list_size, listed>>
         ELSE IF a.failsAt = "request"
         THEN \* lines 880-883: the request of renderRecentlySubmittedJobs raises
              /\ effects' = <<>>
              /\ refreshing' = TRUE
              /\ listed' = {}
              /\ UNCHANGED <<downloading, job_list_size>>
         ELSE IF ~jupyter_globus \/ a.failsAt = "download_result_folder_by_globus"
         THEN \* line 887 on a jupyter_globus that is None, or line 894 raises
              /\ effects' = IF jupyter_globus
                            THEN <<Called("download_result_folder_by_globus", FALSE)>>
                            ELSE <<>>
              /\ refreshing' = TRUE
              /\ downloading' = TRUE
              /\ renderRecentlySubmittedJobs(a.jobs)
         ELSE \* lines 894-902
              /\ effects' = <<Called("download_result_folder_by_globus", TRUE)>>
              /\ refreshing' = FALSE
              /\ downloading' = FALSE
              /\ renderRecentlySubmittedJobs(a.jobs)
    /\ UNCHANGED <<rendered, submitted, jobFinished, jupyter_globus, folderPage, totalJobs,
                   pageButtons, downloadButton, submitNewButton>>
    /\ UNCHANGED jobVars

\* a Load More that adds the step after the list was rendered
onLoadMoreClick_addsAfter ==
    /\ rendered
    /\ job_list_size + LoadMoreStep <= MaxListSize
    /\ handler' = "onLoadMoreClick"
    /\ \E n \in 0..MaxJobs :
         /\ given' = [jobs |-> n]
         /\ job_list_size' = cappedSize(job_list_size, n) + LoadMoreStep
         /\ listed' = listedRange(cappedSize(job_list_size, n), n)
    /\ effects' = <<Called("request", TRUE)>>
    /\ UNCHANGED <<rendered, submitted, jobFinished, downloading, refreshing, jupyter_globus,
                   folderPage, totalJobs, pageButtons, downloadButton, submitNewButton>>
    /\ UNCHANGED jobVars

\* the on_click of onLoadMoreClick, lines 1033-1041
onLoadMoreClick ==
    /\ rendered
    /\ job_list_size + LoadMoreStep <= MaxListSize
    /\ handler' = "onLoadMoreClick"
    /\ \/ \* the request of line 832 raises: the list stays cleared
          /\ given' = NoArgs
          /\ effects' = <<Called("request", FALSE)>>
          /\ job_list_size' = job_list_size + LoadMoreStep
          /\ listed' = {}
       \/ \E n \in 0..MaxJobs :
            /\ given' = [jobs |-> n]
            /\ effects' = <<Called("request", TRUE)>>
            /\ job_list_size' = cappedSize(job_list_size + LoadMoreStep, n)
            /\ listed' = listedRange(cappedSize(job_list_size + LoadMoreStep, n), n)
       \/ \* get_job_by_id of line 838 raises after k entries were displayed
          \E n \in 1..MaxJobs :
            \E k \in 0..(cappedSize(job_list_size + LoadMoreStep, n) - 1) :
               /\ given' = [jobs |-> n]
               /\ effects' = <<Called("request", TRUE), Called("get_job_by_id", FALSE)>>
               /\ job_list_size' = cappedSize(job_list_size + LoadMoreStep, n)
               /\ listed' = listedRange(k, n)
    /\ UNCHANGED <<rendered, submitted, jobFinished, downloading, refreshing, jupyter_globus,
                   folderPage, totalJobs, pageButtons, downloadButton, submitNewButton>>
    /\ UNCHANGED jobVars

\* renderFolders, lines 778-799, after the output was cleared: the request raises and
\* no button is displayed, or the buttons are made with the count of the new list
renderFolders ==
    \/ /\ pageButtons' = FALSE
       /\ effects' = <<Called("request", FALSE)>>
       /\ UNCHANGED totalJobs
    \/ \E c \in 0..MaxFolders :
         /\ pageButtons' = TRUE
         /\ effects' = <<Called("request", TRUE)>>
         /\ totalJobs' = c

\* the on_click of onPrevPageButton, lines 1089-1093
onPrevPageButton ==
    /\ pageButtons
    /\ handler' = "onPrevPageButton"
    /\ given' = NoArgs
    /\ folderPage' = IF folderPage - 1 >= 0 THEN folderPage - 1 ELSE folderPage
    /\ renderFolders
    /\ UNCHANGED <<rendered, submitted, jobFinished, downloading, refreshing, jupyter_globus,
                   job_list_size, listed, downloadButton, submitNewButton>>
    /\ UNCHANGED jobVars

\* the on_click of onNextPageButton(totalJobs), lines 1097-1101
onNextPageButton ==
    /\ pageButtons
    /\ handler' = "onNextPageButton"
    /\ given' = NoArgs
    /\ folderPage' = IF (folderPage + 1) * FoldersPerPage < totalJobs
                     THEN folderPage + 1 ELSE folderPage
    /\ renderFolders
    /\ UNCHANGED <<rendered, submitted, jobFinished, downloading, refreshing, jupyter_globus,
                   job_list_size, listed, downloadButton, submitNewButton>>
    /\ UNCHANGED jobVars

\* the service lists no folder and at most one job
ShortLists == totalJobs' = 0 /\ Cardinality(listed') <= 1

\* the Submit, Submit New Job, Restore and Download buttons, the service giving short lists
NextUI ==
    \/ (render /\ ShortLists)
    \/ (onSubmitButtonClick /\ ShortLists)
    \/ onSubmitNewButtonClick
    \/ (onJobEntryButtonClick /\ ShortLists)
    \/ (onDownloadButtonClick /\ ShortLists)

SpecUI == Init /\ [][NextUI]_vars

\* the list of recently submitted jobs
NextUIJobs == render \/ onLoadMoreClick

SpecUIJobs == Init /\ [][NextUIJobs]_vars

\* the pages of the folder list
NextUIFolders == render \/ onPrevPageButton \/ onNextPageButton

SpecUIFolders == Init /\ [][NextUIFolders]_vars

----------------------------------------------------------------------------
(* Reading the trace of a live call *)

\* index of the last Transport request in tr, 0 if none
LastRequest(tr) ==
    LET idx == {i \in 1..Len(tr) : tr[i].k = "request"}
    IN IF idx = {} THEN 0 ELSE CHOOSE i \in idx : \A j \in idx : j <= i

IsDisplay(e) == e.k = "display"

\* the displays made before the last status fetch: one per row already shown
SeenBeforeLastPoll(tr) == Len(SelectSeq(SubSeq(tr, 1, LastRequest(tr)), IsDisplay))

\* what followed the last status fetch
AfterLastPoll(tr) == SubSeq(tr, LastRequest(tr) + 1, Len(tr))

Row(o) == <<o.type, o.message, o.createdAt>>

\* positions of the last fetched events list that were not yet shown and are terminal
UnseenTerminals(tr, o) ==
    {k \in (SeenBeforeLastPoll(tr) + 1)..Len(o) : IsTerminal(o[k].type)}

EventsFinished == call = "events" /\ args.liveOutput /\ pc = "idle"

----------------------------------------------------------------------------
(* C1: in events(liveOutput=true) no event positioned after the first      *)
(* terminal event of a poll is emitted (the loop ends the instant the      *)
(* terminal event is observed).  Stated as in the claim; the code keeps    *)
(* emitting to the end of the batch.                                       *)
C1_NothingEmittedAfterTerminal ==
    (call = "events" /\ args.liveOutput) =>
        \A n \in 1..Len(trace) :
            IsDisplay(trace[n]) =>
                \A a \in 1..Len(trace[n].table) : \A b \in 1..Len(trace[n].table) :
                    a < b => ~IsTerminal(trace[n].table[a][1])

(* C1 as amended: the terminal check is made per event but ends the loop   *)
(* only at the end of the batch: when events(liveOutput=true) returns,     *)
(* every unseen event of the last snapshot has been emitted in order, the  *)
(* ones positioned after the first terminal event included, and one of     *)
(* them is terminal.                                                       *)
C1_BatchEmittedToItsEnd ==
    (EventsFinished /\ result.kind = "return") =>
        LET seen == SeenBeforeLastPoll(trace)
            batch == AfterLastPoll(trace)
        IN /\ UnseenTerminals(trace, out) # {}
           /\ Len(batch) = Len(out) - seen
           /\ \A m \in 1..Len(batch) :
                /\ IsDisplay(batch[m])
                /\ Len(batch[m].table) = seen + m
                /\ batch[m].table[seen + m] = Row(out[seen + m])

\* a call returned after emitting events that follow a terminal event of the same poll
C1_Witness ==
    /\ EventsFinished
    /\ result.kind = "return"
    /\ \E k \in UnseenTerminals(trace, out) : k < Len(out)
    /\ Len(trace[Len(trace)].table) = Len(out)

----------------------------------------------------------------------------
(* C2: once a poll of events(liveOutput=true) returns a snapshot whose     *)
(* not-yet-emitted events include JOB_ENDED or JOB_FAILED, the events up   *)
(* to and including it are emitted in order and the call returns with no   *)
(* further status request and no sleep.                                    *)
C2_TerminalEmittedThenReturn ==
    (/\ EventsFinished
     /\ result # Raise("transport")
     /\ UnseenTerminals(trace, out) # {}) =>
        LET seen == SeenBeforeLastPoll(trace)
            batch == AfterLastPoll(trace)
            first == CHOOSE k \in UnseenTerminals(trace, out) :
                        \A j \in UnseenTerminals(trace, out) : k <= j
        IN /\ result.kind = "return"
           /\ Len(batch) >= first - seen
           /\ \A m \in 1..Len(batch) :
                /\ IsDisplay(batch[m])
                /\ batch[m].table[seen + m] = Row(out[seen + m])

\* the same, for a Job whose self.maintainer is a string
C2_HoldsWithMaintainer ==
    job.maintainer # None => C2_TerminalEmittedThenReturn

\* poll 1 = [], poll 2 = [INFO, JOB_ENDED]: two emissions, no poll 3
C2_ExampleReached ==
    /\ EventsFinished
    /\ result.kind = "return"
    /\ polls = 2
    /\ Len(trace) = 5
    /\ IsSleep(trace[2])
    /\ out = <<Event("INFO"), Event("JOB_ENDED")>>

----------------------------------------------------------------------------
(* C3: logs(liveOutput=true) sleeps after every cycle in which no terminal *)
(* event was found, returns without sleeping after the cycle in which one  *)
(* is found, and never issues two status fetches with no sleep between.    *)
C3_LogsPacing ==
    (call = "logs" /\ args.liveOutput) =>
        /\ \A n \in 1..(Len(trace) - 1) : \A m \in (n + 1)..Len(trace) :
                (trace[n].k = "request" /\ trace[m].k = "request") =>
                    \E s \in (n + 1)..(m - 1) : IsSleep(trace[s])
        /\ (pc = "idle" /\ result.kind = "return") => ~IsSleep(trace[Len(trace)])

\* what the code does instead: no sleep while the job runs, one sleep before returning
C3_CodePacing ==
    (call = "logs" /\ args.liveOutput) =>
        /\ \A n \in 1..Len(trace) : IsSleep(trace[n]) => n = Len(trace)
        /\ (pc = "idle" /\ result.kind = "return") => IsSleep(trace[Len(trace)])

----------------------------------------------------------------------------
(* C4: round trip.  A Job(id=<id>) constructed with no other argument ends *)
(* construction with id, hpc and maintainer equal to the ones persisted in *)
(* the identity file at fresh registration.                                *)
C4_RoundTrip ==
    (/\ call = "__init__"
     /\ pc = "idle"
     /\ result.kind = "return"
     /\ args.id # None
     /\ args.maintainer = None /\ args.hpc = None
     /\ args.user = None /\ args.password = None) =>
        LET constructor == files[ConstructorFile(args.id)]
        IN /\ job.id = JsonGet(constructor, "id")
           /\ job.hpc = JsonGet(constructor, "hpc")
           /\ job.maintainer = JsonGet(constructor, "maintainer")

\* what does round-trip: the id, the hpc and the secret
C4_IdHpcSecretRoundTrip ==
    (call = "__init__" /\ pc = "idle" /\ result.kind = "return" /\ args.id # None) =>
        LET constructor == files[ConstructorFile(args.id)]
        IN /\ job.id = JsonGet(constructor, "id")
           /\ job.hpc = JsonGet(constructor, "hpc")
           /\ job.sT = JsonGet(constructor, "secretToken")
           /\ job.maintainer = args.maintainer

----------------------------------------------------------------------------
(* C7: submit() returns the job record the service returned for the submit *)
(* action, on every successful submission.                                 *)
C7_ReturnsServiceRecord ==
    (call = "submit" /\ pc = "idle" /\ result.kind = "return") =>
        result.value = response

(* C7 as amended: on every successful submission submit() displays the job *)
(* record the service returned, as a one-row table, and returns the Job    *)
(* instance itself.                                                        *)
C7_ReturnsSelf ==
    (call = "submit" /\ pc = "idle" /\ result.kind = "return") =>
        /\ result.value = Self
        /\ result.value # response
        /\ trace[Len(trace)] = Display(<<SubmitRow(response)>>)

\* a successful submission
C7_Witness ==
    /\ call = "submit" /\ pc = "idle" /\ result.kind = "return"
    /\ response \in JobRecords
    /\ Len(trace) = 3

----------------------------------------------------------------------------
(* C8: submit() issues PUT /job/<id> with exactly the access token and the *)
(* non-null configuration fields, then POST /job/<id>/submit with the      *)
(* access token, in this order and nothing else; when the PUT fails the    *)
(* POST is never issued.                                                   *)
IsRequest(e) == e.k = "request"

NonNullFields(body) == {f \in Fields : f \in DOMAIN body /\ body[f] # None}

C8_SubmitRequests ==
    call = "submit" =>
        LET reqs == SelectSeq(trace, IsRequest)
            put == trace[1]
        IN /\ Len(reqs) \in {1, 2}
           /\ reqs = SubSeq(trace, 1, Len(reqs))
           /\ put.method = "PUT"
           /\ put.path = Str(<<"/job/">> \o job.id.s)
           /\ DOMAIN put.body = {"accessToken"} \cup NonNullFields(job.body)
           /\ put.body["accessToken"] = getAccessToken(job)
           /\ \A f \in NonNullFields(job.body) : put.body[f] = job.body[f]
           /\ Len(reqs) = 2 =>
                /\ trace[2].method = "POST"
                /\ trace[2].path = Str(<<"/job/">> \o job.id.s \o <<"/submit">>)
                /\ trace[2].body = [accessToken |-> getAccessToken(job)]
           /\ pc = "submit_post" => Len(reqs) = 1
           /\ (pc = "idle" /\ result.kind = "return") => Len(reqs) = 2
           /\ (pc = "idle" /\ Len(reqs) = 1) => result = Raise("transport")

\* a successful submission of a configuration with a null and a non-null folder
C8_Witness ==
    /\ call = "submit" /\ pc = "idle" /\ result.kind = "return"
    /\ "dataFolder" \in NonNullFields(job.body)
    /\ job.body["executableFolder"] = None
    /\ Len(SelectSeq(trace, IsRequest)) = 2

\* a submission whose PUT failed
C8_WitnessPutFailed ==
    /\ call = "submit" /\ pc = "idle" /\ result = Raise("transport")
    /\ Len(trace) = 1

----------------------------------------------------------------------------
(* C9: for every field f and every non-null value v given to set, empty    *)
(* maps and empty strings included, the configuration holds f = v after    *)
(* the call.                                                               *)
C9_SetAssignsNonNull ==
    (call = "set" /\ pc = "idle") =>
        \A f \in Fields :
            args[f] # None => (f \in DOMAIN job.body /\ job.body[f] = args[f])

\* what the code does: only truthy values are assigned
C9_SetAssignsTruthy ==
    (call = "set" /\ pc = "idle") =>
        \A f \in Fields :
            IF Truthy(args[f])
            THEN f \in DOMAIN job.body /\ job.body[f] = args[f]
            ELSE /\ f \in DOMAIN job.body <=> f \in DOMAIN before
                 /\ f \in DOMAIN before => job.body[f] = before[f]

----------------------------------------------------------------------------
(* C10: set is a merge.  After two calls of set whose non-null arguments   *)
(* name disjoint fields the configuration holds the values of both calls   *)
(* for their fields, and every field named by neither call has the value   *)
(* it had before the first call.                                           *)
Named(a) == {f \in Fields : a[f] # None}

Absent == [t |-> "absent"]
FieldOf(body, f) == IF f \in DOMAIN body THEN body[f] ELSE Absent

C10_TwoSetsMerge ==
    [][(/\ call = "set" /\ pc = "idle"
        /\ call' = "set" /\ pc' = "idle"
        /\ Named(args) \cap Named(args') = {}) =>
            \A f \in Fields :
                /\ f \in Named(args) => FieldOf(job'.body, f) = args[f]
                /\ f \in Named(args') => FieldOf(job'.body, f) = args'[f]
                /\ f \notin Named(args) \cup Named(args') =>
                        FieldOf(job'.body, f) = FieldOf(before, f)]_vars

\* the same for calls that give truthy values only
C10_TwoTruthySetsMerge ==
    [][(/\ call = "set" /\ pc = "idle"
        /\ call' = "set" /\ pc' = "idle"
        /\ \A f \in Named(args) : Truthy(args[f])
        /\ \A f \in Named(args') : Truthy(args'[f])
        /\ Named(args) \cap Named(args') = {}) =>
            \A f \in Fields :
                /\ f \in Named(args) => FieldOf(job'.body, f) = args[f]
                /\ f \in Named(args') => FieldOf(job'.body, f) = args'[f]
                /\ f \notin Named(args) \cup Named(args') =>
                        FieldOf(job'.body, f) = FieldOf(before, f)]_vars

----------------------------------------------------------------------------
(* Reading the trace of downloadResultFolder *)

\* number of '://' separators of the string s
SeparatorCount(s) == Cardinality({i \in 1..Len(s) : IsSeparatorAt(s, i)})

DownloadFinished == call = "downloadResultFolder" /\ pc = "idle"

\* the status fetch of the finished call delivered a string locator
FetchedLocator ==
    /\ DownloadFinished
    /\ "resultFolder" \in DOMAIN status
    /\ status.resultFolder # None

(* C5: for every result locator that does not contain exactly one '://'    *)
(* downloadResultFolder raises the invalid-format error and performs no    *)
(* network call at all during the invocation.                              *)
C5_NoNetworkCallAtAll ==
    (FetchedLocator /\ SeparatorCount(status.resultFolder.s) # 1) =>
        /\ result = Raise("invalid result folder formate provided")
        /\ trace = <<>>

(* C5 as amended: for every such locator downloadResultFolder raises the   *)
(* invalid-format error, and the only network call of the invocation is    *)
(* the status fetch that delivered the locator: no transfer request and no *)
(* download is issued.                                                     *)
C5_OnlyTheStatusFetch ==
    (FetchedLocator /\ SeparatorCount(status.resultFolder.s) # 1) =>
        /\ result = Raise("invalid result folder formate provided")
        /\ trace = <<StatusRequest(job)>>

\* a locator with two separators was rejected
C5_Witness ==
    /\ FetchedLocator
    /\ SeparatorCount(status.resultFolder.s) = 2
    /\ result.kind = "raise"

\* a locator with no separator was rejected
C5_WitnessNoSeparator ==
    /\ FetchedLocator
    /\ status.resultFolder.s = <<"x">>
    /\ result.kind = "raise"

----------------------------------------------------------------------------
(* C6: whenever the fetched status lacks a result locator (the resultFolder *)
(* field is absent or null) downloadResultFolder raises the result-not-    *)
(* ready error and issues neither a transfer request nor a download.       *)
C6_NotReady ==
    (/\ DownloadFinished
     /\ result # Raise("transport")
     /\ ("resultFolder" \notin DOMAIN status \/ status.resultFolder = None)) =>
        /\ result = Raise("executable folder is not ready")
        /\ trace = <<StatusRequest(job)>>

\* the part that holds: an absent key raises not-ready, and neither case moves a file
C6_AbsentKeyNotReady ==
    (/\ DownloadFinished
     /\ result # Raise("transport")
     /\ ("resultFolder" \notin DOMAIN status \/ status.resultFolder = None)) =>
        /\ trace = <<StatusRequest(job)>>
        /\ "resultFolder" \notin DOMAIN status =>
                result = Raise("executable folder is not ready")

----------------------------------------------------------------------------
(* C11: set leaves unchanged every configuration field whose argument is   *)
(* null; a call with all arguments null leaves the whole configuration,    *)
(* the job identity and the issued requests unchanged.                     *)
C11_SetFrame ==
    [][call' = "set" =>
          /\ \A f \in Fields :
                args'[f] = None => FieldOf(job'.body, f) = FieldOf(job.body, f)
          /\ (\A f \in Fields : args'[f] = None) =>
                /\ job' = job
                /\ files' = files
                /\ \A n \in DOMAIN trace' : ~IsRequest(trace'[n])]_vars

\* an all-null call on a configuration that is no longer the initial one
C11_Witness ==
    /\ call = "set" /\ pc = "idle"
    /\ \A f \in Fields : args[f] = None
    /\ before # InitBody
    /\ job.body = before

\* a call that gives one field on a configuration that holds another
C11_WitnessPartial ==
    /\ call = "set" /\ pc = "idle"
    /\ Truthy(args["param"])
    /\ "dataFolder" \in DOMAIN before
    /\ FieldOf(job.body, "dataFolder") = before["dataFolder"]

----------------------------------------------------------------------------
(* C12: constructing a Job with an id for which no identity file exists    *)
(* fails with the missing-constructor-file error; no Transport request is  *)
(* issued and no file is written before the failure.                       *)
C12_MissingConstructorFile ==
    [][(/\ call' = "__init__"
        /\ args'.id # None
        /\ ConstructorFile(args'.id) \notin DOMAIN files) =>
            /\ result' = Raise("constructor file not found")
            /\ trace' = <<>>
            /\ files' = files
            /\ ~job'.live]_vars

\* the file of another job exists, the file of the id given does not
C12_Witness ==
    /\ call = "__init__"
    /\ args.id # None
    /\ ConstructorFile(args.id) \notin DOMAIN files
    /\ DOMAIN files # {}
    /\ result = Raise("constructor file not found")

----------------------------------------------------------------------------
(* C13: constructing a Job without an id and with maintainer = None fails  *)
(* with the invalid-maintainer error; no Transport request is issued and   *)
(* no identity file is written, whatever hpc, user and password are given. *)
C13_InvalidMaintainer ==
    [][(/\ call' = "__init__"
        /\ args'.id = None
        /\ args'.maintainer = None) =>
            /\ result' = Raise("maintainer cannot by NoneType")
            /\ trace' = <<>>
            /\ files' = files
            /\ ~job'.live]_vars

\* the failure with hpc, user and password all given
C13_Witness ==
    /\ call = "__init__"
    /\ args.id = None /\ args.maintainer = None
    /\ args.hpc # None /\ args.user # None /\ args.password # None
    /\ result = Raise("maintainer cannot by NoneType")

----------------------------------------------------------------------------
(* C14: restoration wins.  Whenever an id is given, construction issues no *)
(* Transport request and writes no identity file, whether or not the       *)
(* identity file exists and whatever maintainer, hpc, user and password    *)
(* are given with it.                                                      *)
C14_RestorationWins ==
    [][(call' = "__init__" /\ args'.id # None) =>
            /\ files' = files
            /\ \A n \in DOMAIN trace' : trace'[n].k \notin {"request", "write"}]_vars

\* a restoration that succeeds with all the arguments of a registration given
C14_Witness ==
    /\ call = "__init__"
    /\ args.id # None
    /\ args.maintainer # None /\ args.hpc # None
    /\ args.user # None /\ args.password # None
    /\ result = Return(None)
    /\ job.live

\* the same arguments without the identity file
C14_WitnessNoFile ==
    /\ call = "__init__"
    /\ args.id # None
    /\ args.maintainer # None /\ args.user # None /\ args.password # None
    /\ result.kind = "raise"

----------------------------------------------------------------------------
(* C15: after a successful fresh registration the identity file named from *)
(* the id the service assigned exists and holds exactly four fields:       *)
(* secretToken, id and hpc as the service returned them and maintainer as  *)
(* the caller gave it.  No identity file ever holds the password.          *)
JsonKeys(text) == {text[i][1] : i \in DOMAIN text}
JsonValues(text) == {text[i][2] : i \in DOMAIN text}

C15_IdentityFile ==
    /\ (call = "__init__" /\ args.id = None /\ result = Return(None)) =>
          LET name == Concat(Concat(Str(<<"job_constructor_">>), response.id), Str(<<".json">>))
          IN /\ name \in DOMAIN files
             /\ Len(files[name]) = 4
             /\ JsonKeys(files[name]) = {"secretToken", "id", "hpc", "maintainer"}
             /\ JsonGet(files[name], "secretToken") = response.secretToken
             /\ JsonGet(files[name], "id") = response.id
             /\ JsonGet(files[name], "hpc") = response.hpc
             /\ JsonGet(files[name], "maintainer") = args.maintainer
    /\ \A n \in DOMAIN files :
          /\ "password" \notin JsonKeys(files[n])
          /\ JsonValues(files[n]) \cap Passwords = {}

\* a registration with user and password, after the file of another job was written
C15_Witness ==
    /\ call = "__init__"
    /\ args.id = None
    /\ args.user # None /\ args.password # None
    /\ result = Return(None)
    /\ Cardinality(DOMAIN files) = 2

----------------------------------------------------------------------------
(* C16: for a well-formed locator with scheme 'local' and identifier x and *)
(* a destination directory d given by the caller, downloadResultFolder     *)
(* issues exactly one download request whose fileUrl is the full locator   *)
(* and whose destination is d joined with x, issues no transfer request,   *)
(* and returns the local path the Transport reported.                      *)
SchemeOf(name) == <<name, ":", "/", "/">>

\* the locator is <name>://<identifier> with no further separator
HasScheme(loc, name) ==
    /\ Len(loc.s) >= 4
    /\ SubSeq(loc.s, 1, 4) = SchemeOf(name)
    /\ SeparatorCount(loc.s) = 1

Identifier(loc) == SubSeq(loc.s, 5, Len(loc.s))

\* d joined with x as os.path.join joins them: an absolute x stands alone
Joined(d, x) ==
    IF x # <<>> /\ x[1] = "/" THEN x
    ELSE IF d = <<>> \/ d[Len(d)] = "/" THEN d \o x
    ELSE d \o <<"/">> \o x

IsTransfer(e) == e.k = "request" /\ e.method = "GET" /\ e.path = Str(<<"/file">>)

C16_LocalDownload ==
    (FetchedLocator /\ HasScheme(status.resultFolder, "local") /\ args.dir # None) =>
        /\ Len(trace) = 2
        /\ trace[1].k = "request" /\ ~IsTransfer(trace[1])
        /\ trace[2].k = "download"
        /\ trace[2].body.fileUrl = status.resultFolder
        /\ trace[2].dir = Str(Joined(args.dir.s, Identifier(status.resultFolder)))
        /\ \/ result = Raise("transport")
           \/ result = Return(response) /\ response \in LocalPaths

\* local://x was downloaded to d/x and the Transport's path returned
C16_Witness ==
    /\ FetchedLocator
    /\ status.resultFolder = Str(<<"local", ":", "/", "/", "x">>)
    /\ args.dir = Str(<<"d">>)
    /\ trace[Len(trace)].k = "download"
    /\ trace[Len(trace)].dir = Str(<<"d", "/", "x">>)
    /\ result = Return(Str(<<"p1">>))

\* an identifier that starts with the path separator
C16_WitnessAbsolute ==
    /\ FetchedLocator
    /\ status.resultFolder = Str(<<"local", ":", "/", "/", "/", "x">>)
    /\ args.dir # None
    /\ result.kind = "return"

----------------------------------------------------------------------------
(* C17: for a well-formed locator with scheme 'globus' downloadResultFolder *)
(* issues exactly one transfer request, GET /file with the access token     *)
(* and the full locator, never calls Transport.download, and returns the    *)
(* service's response unchanged.                                            *)
C17_GlobusTransfer ==
    (FetchedLocator /\ HasScheme(status.resultFolder, "globus")) =>
        /\ Len(trace) = 2
        /\ ~IsTransfer(trace[1])
        /\ trace[2] = [k |-> "request", method |-> "GET", path |-> Str(<<"/file">>),
                       body |-> [accessToken |-> [t |-> "token", algorithm |-> "md5",
                                                  id |-> job.id, secretToken |-> job.sT],
                                 fileUrl |-> status.resultFolder]]
        /\ \A n \in DOMAIN trace : trace[n].k # "download"
        /\ \/ result = Raise("transport")
           \/ result = Return(response) /\ response \in TransferResponses

\* globus://x with a destination directory given: the response came back
C17_Witness ==
    /\ FetchedLocator
    /\ status.resultFolder = Str(<<"globus", ":", "/", "/", "x">>)
    /\ args.dir # None
    /\ result = Return(Dict({<<"task", "t1">>}))

----------------------------------------------------------------------------
(* C18: for a locator with exactly one '://' whose scheme is neither       *)
(* 'local' nor 'globus', the empty scheme included, downloadResultFolder   *)
(* falls through: it raises no error, returns no value and issues no       *)
(* request other than the initial status fetch.                            *)
C18_OtherSchemeFallsThrough ==
    (/\ FetchedLocator
     /\ SeparatorCount(status.resultFolder.s) = 1
     /\ ~HasScheme(status.resultFolder, "local")
     /\ ~HasScheme(status.resultFolder, "globus")) =>
        /\ result = Return(None)
        /\ Len(trace) = 1
        /\ trace[1].k = "request" /\ ~IsTransfer(trace[1])

\* the empty scheme
C18_Witness ==
    /\ FetchedLocator
    /\ status.resultFolder = Str(<<":", "/", "/", "x">>)
    /\ result = Return(None)

\* a scheme that starts with 'local'
C18_WitnessLongerScheme ==
    /\ FetchedLocator
    /\ status.resultFolder = Str(<<"local", "x", ":", "/", "/", "x">>)
    /\ args.dir # None
    /\ result = Return(None)

----------------------------------------------------------------------------
(* C19: status() issues exactly one GET /job/<id> request, returns the     *)
(* service's snapshot unchanged and leaves the job identity and the        *)
(* configuration unchanged; with liveOutput false, events() and logs()     *)
(* each perform exactly one such fetch, return the events (logs) list of   *)
(* the snapshot and emit nothing.                                          *)
IsStatusFetch(e, j) ==
    e.k = "request" /\ e.method = "GET" /\ e.path = Str(<<"/job/">> \o j.id.s)

\* the call in progress after the step is a read of one snapshot
SnapshotRead ==
    \/ call' = "status"
    \/ call' \in {"events", "logs"} /\ ~args'.liveOutput

C19_SnapshotReads ==
    [][SnapshotRead =>
          /\ job' = job
          /\ files' = files
          /\ pc' = "idle" =>
                /\ Len(trace') = 1
                /\ IsStatusFetch(trace'[1], job)
                /\ \/ result' = Raise("transport")
                   \/ /\ response' \in Snapshots
                      /\ result' = Return(CASE call' = "status" -> response'
                                            [] call' = "events" -> response'.events
                                            [] call' = "logs" -> response'.logs)]_vars

\* status() returned a snapshot with events and logs on a job whose folder was uploaded
C19_Witness ==
    /\ call = "status" /\ pc = "idle"
    /\ result.kind = "return"
    /\ result.value.events # <<>> /\ result.value.logs # <<>>
    /\ job.body.executableFolder # None
    /\ job.body = before

\* events() and logs() without live output returned their lists
C19_WitnessEvents ==
    /\ call = "events" /\ pc = "idle" /\ ~args.liveOutput
    /\ result.kind = "return" /\ Len(result.value) = 2
    /\ response.logs # <<>>

C19_WitnessLogs ==
    /\ call = "logs" /\ pc = "idle" /\ ~args.liveOutput
    /\ result.kind = "return" /\ Len(result.value) = 2
    /\ response.events # <<>>

----------------------------------------------------------------------------
(* C20: every Transport call issued by an operation on a constructed Job   *)
(* (the PUT and the POST of submit, status, every poll of events and logs, *)
(* uploadExecutableFolder, both branches of downloadResultFolder,          *)
(* queryGlobusTaskStatus) carries the access token derived from that job's *)
(* id and secretToken; only the create-job request of a fresh registration *)
(* is sent without it.                                                     *)
IsTransportCall(e) == e.k \in {"request", "upload", "download"}

TokenOf(id, secretToken) ==
    [t |-> "token", algorithm |-> "md5", id |-> id, secretToken |-> secretToken]

C20_AccessTokenOnEveryCall ==
    \A n \in DOMAIN trace :
        IsTransportCall(trace[n]) =>
            IF call = "__init__"
            THEN "accessToken" \notin DOMAIN trace[n].body
            ELSE /\ "accessToken" \in DOMAIN trace[n].body
                 /\ trace[n].body.accessToken = TokenOf(job.id, job.sT)

\* an upload by the job the service named j2
C20_Witness ==
    /\ call = "uploadExecutableFolder" /\ pc = "idle"
    /\ job.id = Str(<<"j2">>)
    /\ Len(trace) = 1 /\ trace[1].k = "upload"
    /\ trace[1].file # {}
    /\ result.kind = "return"

\* the other operations the claim lists
C20_WitnessSubmit ==
    /\ call = "submit" /\ pc = "idle" /\ Len(trace) >= 2
    /\ trace[1].method = "PUT" /\ trace[2].method = "POST"

C20_WitnessDownload ==
    /\ call = "downloadResultFolder" /\ pc = "idle"
    /\ Len(trace) = 2 /\ trace[2].k = "download"

C20_WitnessTransfer ==
    /\ call = "downloadResultFolder" /\ pc = "idle"
    /\ Len(trace) = 2 /\ IsTransfer(trace[2])

C20_WitnessQuery ==
    /\ call = "queryGlobusTaskStatus"
    /\ Len(trace) = 1 /\ trace[1].k = "request"

C20_WitnessPolls ==
    /\ call \in {"events", "logs"} /\ args.liveOutput
    /\ Cardinality({n \in DOMAIN trace : IsTransportCall(trace[n])}) >= 2

C20_WitnessCreate ==
    /\ call = "__init__"
    /\ Len(trace) >= 1 /\ trace[1].k = "request"
    /\ "password" \in DOMAIN trace[1].body

----------------------------------------------------------------------------
(* C21: in events(liveOutput=true) over append-only snapshots the sequence *)
(* of emitted events is at every moment a prefix of the latest fetched     *)
(* snapshot: each event is emitted exactly once, in snapshot order, one    *)
(* per emission step, and a poll whose snapshot is not longer than the     *)
(* number already emitted emits nothing.                                   *)
Displays(tr) == SelectSeq(tr, IsDisplay)

\* the row each emission step added: the last row of the table it displayed
Emitted(tr) ==
    [n \in 1..Len(Displays(tr)) |-> Displays(tr)[n].table[Len(Displays(tr)[n].table)]]

Rows(snapshot) == [n \in 1..Len(snapshot) |-> Row(snapshot[n])]

EventsLive == call = "events" /\ args.liveOutput

C21_EmittedIsPrefix ==
    EventsLive =>
        /\ IsPrefix(Emitted(trace), Rows(out))
        /\ \A n \in 1..Len(Displays(trace)) :
              Displays(trace)[n].table = SubSeq(Rows(out), 1, n)
        /\ (pc = "events_status" \/ result.kind = "return") => Emitted(trace) = Rows(out)
        /\ Len(out) <= SeenBeforeLastPoll(trace) =>
              \A n \in 1..Len(AfterLastPoll(trace)) : ~IsDisplay(AfterLastPoll(trace)[n])

\* two polls: the first showed one event, the second appended the terminal one
C21_Witness ==
    /\ EventsFinished
    /\ result.kind = "return"
    /\ polls = 2
    /\ SeenBeforeLastPoll(trace) = 1
    /\ Len(Emitted(trace)) = 2
    /\ Emitted(trace) = Rows(out)

\* a poll that brought nothing new was followed by a sleep and a third poll
C21_WitnessNothingNew ==
    /\ EventsLive
    /\ polls = 3
    /\ Len(out) = 1
    /\ Len(Displays(trace)) = 1
    /\ Len(SelectSeq(trace, IsSleep)) = 2

----------------------------------------------------------------------------
(* C22: in events(liveOutput=true), whenever a poll's batch is exhausted   *)
(* without any terminal event having been observed, exactly one sleep of   *)
(* refreshRateInSeconds occurs before the next status fetch; consecutive   *)
(* polls are always separated by exactly one sleep and no sleep follows    *)
(* the final poll.                                                         *)
RequestsIn(tr) == {n \in 1..Len(tr) : IsRequest(tr[n])}
SleepsIn(tr) == {n \in 1..Len(tr) : IsSleep(tr[n])}

\* a and b are the positions of two consecutive status fetches
ConsecutivePolls(tr, a, b) ==
    /\ a \in RequestsIn(tr) /\ b \in RequestsIn(tr) /\ a < b
    /\ \A c \in RequestsIn(tr) : ~(a < c /\ c < b)

C22_OneSleepBetweenPolls ==
    EventsLive =>
        /\ \A n \in SleepsIn(trace) : trace[n].seconds = args.refreshRateInSeconds
        /\ \A a \in 1..Len(trace), b \in 1..Len(trace) :
              ConsecutivePolls(trace, a, b) =>
                  /\ Cardinality({n \in SleepsIn(trace) : a < n /\ n < b}) = 1
                  /\ IsSleep(trace[b - 1])
                  /\ \A n \in 1..(b - 1) :
                        IsDisplay(trace[n]) =>
                            \A r \in 1..Len(trace[n].table) : ~IsTerminal(trace[n].table[r][1])
        /\ \A n \in SleepsIn(trace) : \E a \in RequestsIn(trace) : a < n
        /\ (pc = "events_inner" /\ ~(startPos < Len(out)) /\ ~isEnd) =>
              SleepsIn(AfterLastPoll(trace)) = {}
        /\ (pc = "events_status" /\ polls > 0) =>
              /\ IsSleep(trace[Len(trace)])
              /\ Cardinality(SleepsIn(AfterLastPoll(trace))) = 1
        /\ pc = "idle" => SleepsIn(AfterLastPoll(trace)) = {}

\* three polls separated by two sleeps of the caller's own refresh rate, then the return
C22_Witness ==
    /\ EventsFinished
    /\ result.kind = "return"
    /\ Cardinality(RequestsIn(trace)) = 3
    /\ Cardinality(SleepsIn(trace)) = 2
    /\ args.refreshRateInSeconds = 1
    /\ \A n \in SleepsIn(trace) : trace[n].seconds = 1

----------------------------------------------------------------------------
(* C23: events(liveOutput=true) returns if and only if some poll's         *)
(* snapshot contains a JOB_ENDED or JOB_FAILED event: under an append-only *)
(* service the call whose poll delivered a terminal event returns, and a   *)
(* call never returns while no terminal event has appeared.  Stated on the *)
(* call that has stopped polling: it has returned exactly when its last    *)
(* snapshot holds a terminal event.                                        *)
HasTerminal(snapshot) == \E n \in 1..Len(snapshot) : IsTerminal(snapshot[n].type)

C23_ReturnsIffTerminal ==
    EventsLive =>
        /\ result.kind = "return" => HasTerminal(out)
        /\ (HasTerminal(out) /\ pc \in {"idle", "events_status"}) => result.kind = "return"

\* what the code does: the same on a Job whose maintainer attribute is set
C23_HoldsWithMaintainer ==
    (EventsLive /\ job.maintainer # None) =>
        /\ result.kind = "return" => HasTerminal(out)
        /\ (HasTerminal(out) /\ pc \in {"idle", "events_status"}) => result.kind = "return"

\* a restored Job whose first snapshot holds the terminal event
C23_ExampleReached ==
    /\ EventsFinished
    /\ job.maintainer = None
    /\ HasTerminal(out)
    /\ result = Raise("TypeError")

----------------------------------------------------------------------------
(* C24: logs(liveOutput=true) decides termination from the events list of  *)
(* the same snapshot, once per cycle and after the log flush: it returns   *)
(* at the end of the first cycle whose snapshot's events contain JOB_ENDED *)
(* or JOB_FAILED at any position, only after every log entry of that       *)
(* snapshot has been emitted, and it never returns at the end of a cycle   *)
(* whose events contain no terminal event.                                 *)
LogsLive == call = "logs" /\ args.liveOutput

LogRow(o) == <<o.message, o.createdAt>>
LogRows(snapshot) == [n \in 1..Len(snapshot) |-> LogRow(snapshot[n])]

\* the cycle of the last fetched snapshot is over: the call ended or went on to poll again
CycleOver == polls > 0 /\ pc \in {"idle", "logs_status"} /\ result # Raise("transport")

C24_TerminationFromEvents ==
    LogsLive =>
        /\ result.kind = "return" =>
              /\ HasTerminal(status.events)
              /\ Emitted(trace) = LogRows(status.logs)
        /\ (CycleOver /\ HasTerminal(status.events)) => result.kind = "return"
        /\ (CycleOver /\ ~HasTerminal(status.events)) => pc = "logs_status"

\* what the code does: the same on a Job whose maintainer attribute is set
C24_HoldsWithMaintainer ==
    (LogsLive /\ job.maintainer # None) =>
        /\ result.kind = "return" =>
              /\ HasTerminal(status.events)
              /\ Emitted(trace) = LogRows(status.logs)
        /\ (CycleOver /\ HasTerminal(status.events)) => result.kind = "return"
        /\ (CycleOver /\ ~HasTerminal(status.events)) => pc = "logs_status"

\* a restored Job: the snapshot holds a terminal event and a log entry
C24_ExampleReached ==
    /\ LogsLive /\ pc = "idle"
    /\ job.maintainer = None
    /\ HasTerminal(status.events)
    /\ status.logs # <<>>
    /\ result = Raise("TypeError")

\* the terminal event is not the first event of its snapshot: the call returned
C24_ExampleAnyPosition ==
    /\ LogsLive /\ pc = "idle"
    /\ result.kind = "return"
    /\ Len(status.events) = 2
    /\ ~IsTerminal(status.events[1].type)
    /\ status.logs # <<>>

----------------------------------------------------------------------------
(* C25: in logs(liveOutput=true) over append-only snapshots each log entry *)
(* is emitted exactly once and in snapshot order, and the entries emitted  *)
(* when the call returns are the logs list of the snapshot in which the    *)
(* terminal event was first seen: entries appended afterwards are never    *)
(* emitted.                                                                *)
C25_LogsEmittedInOrder ==
    LogsLive =>
        /\ IsPrefix(Emitted(trace), LogRows(status.logs))
        /\ \A n \in 1..Len(Displays(trace)) :
              Displays(trace)[n].table = SubSeq(LogRows(status.logs), 1, n)
        /\ pc = "logs_status" =>
              /\ Emitted(trace) = LogRows(status.logs)
              /\ ~HasTerminal(status.events)
        /\ result.kind = "return" =>
              /\ HasTerminal(status.events)
              /\ Emitted(trace) = LogRows(status.logs)

\* two polls: one entry shown, then the terminal event arrived with a second entry
C25_Witness ==
    /\ LogsLive /\ pc = "idle"
    /\ result.kind = "return"
    /\ polls = 2
    /\ SeenBeforeLastPoll(trace) = 1
    /\ Len(status.logs) = 2
    /\ Emitted(trace) = LogRows(status.logs)

----------------------------------------------------------------------------
(* C26: a Transport failure raised by a status fetch inside                *)
(* events(liveOutput=true) or logs(liveOutput=true) is fatal to that loop: *)
(* the failure propagates to the caller, no further status request is      *)
(* issued and no retry or sleep follows it.                                *)
C26_TransportFailureIsFatal ==
    ((EventsLive \/ LogsLive) /\ result = Raise("transport")) =>
        /\ pc = "idle"
        /\ IsRequest(trace[Len(trace)])
        /\ Cardinality(RequestsIn(trace)) = polls

\* the second poll of events failed, after one event was shown and one sleep taken
C26_Witness ==
    /\ EventsFinished
    /\ result = Raise("transport")
    /\ polls = 2
    /\ Len(Displays(trace)) = 1
    /\ Cardinality(SleepsIn(trace)) = 1

\* the second poll of logs failed
C26_WitnessLogs ==
    /\ LogsLive /\ pc = "idle"
    /\ result = Raise("transport")
    /\ polls = 2
    /\ Len(Displays(trace)) = 1

----------------------------------------------------------------------------
(* C27: every successfully constructed Job has a non-null id, and after    *)
(* construction no sequence of set, uploadExecutableFolder, submit,        *)
(* status, events, logs, downloadResultFolder and queryGlobusTaskStatus    *)
(* calls changes the job's id, hpc, maintainer or the secret used to       *)
(* derive the access token.                                                *)
C27_IdentityFixed ==
    [][/\ job'.live => job'.id # None
       /\ (job.live /\ call' # "__init__") =>
            /\ job'.live
            /\ job'.id = job.id
            /\ job'.hpc = job.hpc
            /\ job'.maintainer = job.maintainer
            /\ job'.sT = job.sT]_vars

\* a submit of job j1 was answered with the record of another job
C27_Witness ==
    /\ call = "submit"
    /\ result.kind = "return"
    /\ job.live
    /\ response.id # job.id
    /\ job.body # InitBody

----------------------------------------------------------------------------
\* submit() has just returned: both requests were answered
SubmitSucceeded == call = "submit" /\ pc = "idle" /\ result.kind = "return"

(* C28: after a successful submit() the JobConfiguration is frozen: no     *)
(* later operation on the same Job instance (set, uploadExecutableFolder,  *)
(* a second submit) changes the configuration or sends a different         *)
(* configuration snapshot to the service.  Stated for the operation that   *)
(* follows the submit at once.                                             *)
C28_FrozenAfterSubmit ==
    [][(SubmitSucceeded /\ call' # "__init__") =>
          /\ job'.body = job.body
          /\ call' = "submit" => trace'[1].body = trace[1].body]_vars

\* what the code does keep: a submit that follows a submit at once sends the same snapshot
C28_ResubmitSameSnapshot ==
    [][(SubmitSucceeded /\ call' = "submit") =>
          /\ job'.body = job.body
          /\ trace'[1].body = trace[1].body]_vars

----------------------------------------------------------------------------
(* C29: uploadExecutableFolder issues exactly one upload, then sets        *)
(* executableFolder to the file reference of the upload response, leaves   *)
(* every other configuration field and the job identity unchanged, and     *)
(* returns the raw response; if the upload fails, the whole configuration  *)
(* is unchanged.                                                           *)
C29_UploadFrame ==
    [][pc = "upload" =>
          /\ trace = <<>>
          /\ Len(trace') = 1
          /\ trace'[1].k = "upload"
          /\ pc' = "idle"
          /\ job'.id = job.id /\ job'.hpc = job.hpc
          /\ job'.maintainer = job.maintainer /\ job'.sT = job.sT
          /\ \/ /\ result' = Raise("transport")
                /\ job'.body = job.body
             \/ /\ result'.kind = "return"
                /\ result'.value = response'
                /\ DOMAIN job'.body = DOMAIN job.body
                /\ \A f \in DOMAIN job.body :
                      job'.body[f] = IF f = "executableFolder" THEN response'.file
                                     ELSE job.body[f]]_vars

\* an upload replaced the folder of a Job that had a folder and a data folder set
C29_Witness ==
    /\ call = "uploadExecutableFolder"
    /\ result.kind = "return"
    /\ before["executableFolder"] = Str(<<"f1">>)
    /\ "dataFolder" \in DOMAIN before
    /\ job.body["executableFolder"] = response.file
    /\ job.body["dataFolder"] = before["dataFolder"]

\* an upload failed on a configured Job
C29_WitnessFailure ==
    /\ call = "uploadExecutableFolder"
    /\ result = Raise("transport")
    /\ before # InitBody
    /\ job.body = before

----------------------------------------------------------------------------
\* the path of a file relative to the walked folder: its directories and its name,
\* separated by "/"
RECURSIVE RelativePath(_, _)
RelativePath(dirs, f) ==
    IF dirs = <<>> THEN <<f>>
    ELSE <<Head(dirs), "/">> \o RelativePath(Tail(dirs), f)

\* the entries of the archive the call in progress has uploaded
Staged == IF trace # <<>> /\ trace[1].k = "upload" THEN trace[1].file ELSE {}

(* C30: every path that uploadExecutableFolder stages into the Archiver is *)
(* relative to the walked folder: for a file at any depth the staged path  *)
(* has no leading separator and no parent-directory component, and equals  *)
(* the file's path relative to the walked folder.                          *)
C30_StagedPathsRelative ==
    call = "uploadExecutableFolder" =>
        \A e \in Staged :
            /\ e.path.s[1] # "/"
            /\ \A i \in 1..Len(e.path.s) : e.path.s[i] # ".."
            /\ e.path.s = RelativePath(e.content[1], e.content[2])

\* what the code does keep: a file directly in the folder is staged under its name
C30_TopLevelRelative ==
    call = "uploadExecutableFolder" =>
        \A e \in Staged : e.content[1] = <<>> => e.path.s = <<e.content[2]>>

\* the file s/f of the folder was staged as /s/f
C30_ExampleLeadingSeparator ==
    /\ call = "uploadExecutableFolder"
    /\ \E e \in Staged : e.content = <<<<"s">>, "f">> /\ e.path.s = <<"/", "s", "/", "f">>

\* in the folder /a, the files f and a/f were both staged as f
C30_ExampleCollision ==
    /\ call = "uploadExecutableFolder"
    /\ args.folder_path = Str(<<"/", "a">>)
    /\ \E e1, e2 \in Staged :
          /\ e1.content = <<<<>>, "f">>
          /\ e2.content = <<<<"a">>, "f">>
          /\ e1.path = e2.path

----------------------------------------------------------------------------
\* the create-job requests of the call in progress
CreateRequests ==
    {n \in DOMAIN trace : /\ trace[n].k = "request"
                          /\ trace[n].method = "POST"
                          /\ trace[n].path = Str(<<"/job">>)}

(* C31: the create-job request of fresh registration always contains the   *)
(* maintainer, contains hpc if and only if hpc was supplied, and contains  *)
(* user and password if and only if user was supplied; a password supplied *)
(* without a user is never transmitted, and exactly one create-job request *)
(* is issued per fresh construction.                                       *)
C31_CreateRequest ==
    (call = "__init__" /\ args.id = None /\ args.maintainer # None) =>
        /\ CreateRequests = {1}
        /\ LET b == trace[1].body
           IN /\ "maintainer" \in DOMAIN b /\ b["maintainer"] = args.maintainer
              /\ "hpc" \in DOMAIN b <=> args.hpc # None
              /\ "hpc" \in DOMAIN b => b["hpc"] = args.hpc
              /\ "user" \in DOMAIN b <=> args.user # None
              /\ "password" \in DOMAIN b <=> args.user # None
              /\ "user" \in DOMAIN b => b["user"] = args.user
              /\ "password" \in DOMAIN b => b["password"] = args.password
              /\ DOMAIN b \subseteq {"maintainer", "hpc", "user", "password"}
              /\ args.user = None => \A k \in DOMAIN b : b[k] \notin Passwords

\* a registration with hpc and a password but no user
C31_Witness ==
    /\ call = "__init__"
    /\ args.id = None /\ args.maintainer # None
    /\ args.hpc # None /\ args.user = None /\ args.password # None
    /\ result = Return(None)

\* a registration with a user and no password: the password key is sent with None
C31_WitnessUserOnly ==
    /\ call = "__init__"
    /\ args.id = None /\ args.maintainer # None
    /\ args.user # None /\ args.password = None
    /\ trace[1].body["password"] = None

----------------------------------------------------------------------------
(* C32: if the create-job request of fresh registration fails, or its      *)
(* response lacks id, hpc or secretToken, construction fails and no        *)
(* identity file is written; an identity file exists only for ids that the *)
(* service actually returned.                                              *)
C32_FailedRegistration ==
    [][(call' = "__init__" /\ args'.id = None) =>
          IF CreateKeys \subseteq DOMAIN response'
          THEN /\ result' = Return(None)
               /\ DOMAIN files' = DOMAIN files \cup {ConstructorFile(response'.id)}
               /\ \A n \in DOMAIN files : n # ConstructorFile(response'.id) => files'[n] = files[n]
          ELSE /\ result'.kind = "raise"
               /\ ~job'.live
               /\ files' = files
               /\ \A n \in DOMAIN trace' : trace'[n].k # "write"]_vars

\* the service answered with an id but without the secret, after another job was registered
C32_Witness ==
    /\ call = "__init__"
    /\ args.id = None
    /\ DOMAIN response = {"id", "hpc"}
    /\ result = Raise("KeyError")
    /\ Cardinality(DOMAIN files) = 1
    /\ ConstructorFile(response["id"]) \notin DOMAIN files

\* the create-job request itself failed
C32_WitnessTransport ==
    /\ call = "__init__"
    /\ args.id = None
    /\ result = Raise("transport")
    /\ CreateRequests = {1}
    /\ files = [n \in {} |-> <<>>]

----------------------------------------------------------------------------
(* Reading the effects of a click handler *)

\* the call was made and returned
Returned(e, name) == \E i \in DOMAIN e : e[i] = Called(name, TRUE)

\* the call was made, whatever its outcome
Made(e, name) == \E i \in DOMAIN e : e[i].name = name

\* the step is a click on Submit
SubmitClick == handler' = "onSubmitButtonClick"

\* what the three clauses of C33 share: a click while submitted does nothing, and a
\* click that fails in create_job or finds no folder selected leaves submitted False
C33_Clicks ==
    /\ (SubmitClick /\ submitted) =>
          /\ submitted'
          /\ ~Made(effects', "create_job") /\ ~Made(effects', "submit")
    /\ (SubmitClick /\ ~submitted /\ effects'[Len(effects')] = Called("create_job", FALSE)) =>
          ~submitted'
    /\ (SubmitClick /\ ~submitted /\ given'.require_upload_data /\ ~given'.selected) =>
          /\ ~submitted'
          /\ ~Made(effects', "create_job") /\ ~Made(effects', "submit")

(* C33: in the UI, a click on Submit while submitted is True creates no    *)
(* job and submits nothing; submitted becomes True only at the end of a    *)
(* click handler in which create_job and job.submit() both returned, and a *)
(* click that fails in create_job or stops because a required upload       *)
(* folder is not selected leaves submitted False.                          *)
C33_SubmittedOnlyBySubmit ==
    [][/\ C33_Clicks
       /\ (~submitted /\ submitted') =>
             (Returned(effects', "create_job") /\ Returned(effects', "submit"))]_vars

(* C33 as the code has it: submitted becomes True in a Submit click in     *)
(* which create_job, set and submit all returned, or in a Restore click in *)
(* which get_job_by_id and get_user_jupyter_globus returned; the rest of   *)
(* the claim stands.                                                       *)
C33_SubmittedBySubmitOrRestore ==
    [][/\ C33_Clicks
       /\ (~submitted /\ submitted') =>
             \/ /\ SubmitClick
                /\ Returned(effects', "create_job")
                /\ Returned(effects', "set")
                /\ Returned(effects', "submit")
             \/ /\ handler' = "onJobEntryButtonClick"
                /\ Returned(effects', "get_job_by_id")
                /\ Returned(effects', "get_user_jupyter_globus")
                /\ ~Made(effects', "create_job") /\ ~Made(effects', "submit")]_vars

\* a click on Submit arrived while submitted was True, after the job had finished
C33_Witness ==
    /\ handler = "onSubmitButtonClick"
    /\ submitted
    /\ jobFinished
    /\ effects = <<>>

\* a click stopped because the required folder was not selected
C33_WitnessNoFolder ==
    /\ handler = "onSubmitButtonClick"
    /\ ~submitted
    /\ given.require_upload_data /\ ~given.selected
    /\ effects = <<Called("login", TRUE), Called("get_user_jupyter_globus", TRUE)>>

\* a Restore click has set submitted
C33_WitnessRestore ==
    /\ handler = "onJobEntryButtonClick"
    /\ submitted
    /\ ~jobFinished

\* the Submit click that follows a Submit New Job click is not stopped at line 921
C34_NextSubmit ==
    (handler = "onSubmitNewButtonClick" /\ SubmitClick) =>
       /\ Made(effects', "login")
       /\ Returned(effects', "submit") => (Returned(effects', "create_job") /\ submitted')

(* C34: a click on Submit New Job returns the UI to a pre-submission       *)
(* state: afterwards submitted and jobFinished are both False as init set  *)
(* them, the Download button is disabled again, and the next Submit click  *)
(* creates and submits a new job.                                          *)
C34_SubmitNewResets ==
    [][/\ handler' = "onSubmitNewButtonClick" =>
             (~submitted' /\ ~jobFinished' /\ ~downloadButton')
       /\ C34_NextSubmit]_vars

\* the part of C34 the code keeps: Submit New Job clears submitted, so the Submit click
\* after it passes the test of line 921 and, when its calls return, submits a new job
C34_NextSubmitCreates ==
    [][/\ handler' = "onSubmitNewButtonClick" => ~submitted'
       /\ C34_NextSubmit]_vars

\* Submit New Job was clicked after the job had finished: the flag and the enabled
\* Download button of the finished job are still there
C34_Example ==
    /\ handler = "onSubmitNewButtonClick"
    /\ ~submitted
    /\ jobFinished
    /\ downloadButton

\* the step is a click on Download
DownloadClick == handler' = "onDownloadButtonClick"

\* the part of C35 the code keeps: a click that finds downloading True starts no
\* transfer, and a click whose transfer returned leaves both flags False
C35_BusyClickStartsNothing ==
    [][/\ (DownloadClick /\ downloading) =>
             (~Made(effects', "download_result_folder_by_globus") /\ UNCHANGED listed)
       /\ (DownloadClick /\ Returned(effects', "download_result_folder_by_globus")) =>
             (~downloading' /\ ~refreshing')]_vars

(* C35: downloading is True only while a download click handler runs: a    *)
(* Download click that finds downloading True starts no transfer, and      *)
(* after every download attempt, also one whose transfer request raises,   *)
(* downloading and refreshing are both False again.                        *)
C35_FlagsResetAfterDownload ==
    [][/\ (DownloadClick /\ downloading) =>
             ~Made(effects', "download_result_folder_by_globus")
       /\ (DownloadClick /\ ~downloading) => (~downloading' /\ ~refreshing')]_vars

\* the transfer request raised: both flags stay True after the handler
C35_Example ==
    /\ handler = "onDownloadButtonClick"
    /\ effects = <<Called("download_result_folder_by_globus", FALSE)>>
    /\ downloading
    /\ refreshing

\* the job ran on local_hpc, so jupyter_globus is None at line 887: downloading stays
\* True although no transfer was requested
C35_ExampleNoGlobus ==
    /\ handler = "onDownloadButtonClick"
    /\ ~jupyter_globus
    /\ effects = <<>>
    /\ downloading

\* the step is a click on Load More
LoadMoreClick == handler' = "onLoadMoreClick"

(* C36: each Load More click shows five more recently submitted jobs,      *)
(* capped at the number of jobs the service lists: after the re-render     *)
(* that follows the click job_list_size is min(previous job_list_size + 5, *)
(* number of jobs), and the list never shows more entries than jobs exist  *)
(* nor an index below zero.                                                *)
C36_LoadMore ==
    [][(LoadMoreClick /\ Returned(effects', "request")) =>
          LET n == given'.jobs
              grown == job_list_size + 5
          IN /\ job_list_size' = IF grown < n THEN grown ELSE n
             /\ Cardinality(listed') <= n
             /\ \A i \in listed' : i >= 0 /\ i < n
             /\ ~Made(effects', "get_job_by_id") =>
                   /\ Cardinality(listed') = job_list_size'
                   /\ \A i \in 0..(n - 1) : i \in listed' <=> i >= n - job_list_size']_vars

\* a click on a list of five showed ten of the eleven jobs
C36_Witness ==
    /\ handler = "onLoadMoreClick"
    /\ given = [jobs |-> 11]
    /\ job_list_size = 10
    /\ listed = 1..10

\* a click was capped by a list that holds fewer jobs than five more
C36_WitnessCapped ==
    /\ handler = "onLoadMoreClick"
    /\ given = [jobs |-> 7]
    /\ job_list_size = 7
    /\ listed = 0..6

\* the list became empty between two renders: nothing is displayed
C36_WitnessEmpty ==
    /\ handler = "onLoadMoreClick"
    /\ given = [jobs |-> 0]
    /\ job_list_size = 0
    /\ listed = {}
    /\ effects = <<Called("request", TRUE)>>

\* the step is a click on Previous Page, on Next Page
PrevClick == handler' = "onPrevPageButton"
NextClick == handler' = "onNextPageButton"

\* the tests of the two handlers: folderPage never goes below 0, Next Page advances by
\* one and only under its test on the count captured at the last render, and a click at
\* either bound leaves folderPage unchanged
C37_Guards ==
    /\ folderPage' >= 0
    /\ PrevClick => folderPage' = (IF folderPage = 0 THEN 0 ELSE folderPage - 1)
    /\ NextClick => folderPage' = (IF (folderPage + 1) * 10 < totalJobs
                                   THEN folderPage + 1 ELSE folderPage)
    /\ (NextClick /\ folderPage' # folderPage) => folderPage' * 10 < totalJobs

\* the first folder index shown lies in the list of the render that shows it
PageInList(page, count) == page = 0 \/ page * 10 < count

(* C37: for every sequence of Previous Page and Next Page clicks,          *)
(* folderPage stays non-negative and Next Page advances only when          *)
(* (folderPage + 1) * foldersPerPage is below the folder count captured at *)
(* the last render, so the first folder index shown is always below that   *)
(* count (or the page is 0); a click at either bound leaves folderPage     *)
(* unchanged.                                                              *)
C37_FolderPaging ==
    [][/\ C37_Guards
       /\ pageButtons' => PageInList(folderPage', totalJobs')]_vars

\* the part of C37 the code keeps: the tests of the handlers, and the page shown lies
\* in the list as long as the list of the service is not shorter than at the last render
C37_PagingGuards ==
    [][/\ C37_Guards
       /\ (pageButtons' /\ totalJobs' >= totalJobs /\ PageInList(folderPage, totalJobs)) =>
             PageInList(folderPage', totalJobs')]_vars

\* page 1 of a list that shrank to five folders: the render shows folders 11 to 5 of 5
C37_Example ==
    /\ handler = "onNextPageButton"
    /\ pageButtons
    /\ folderPage = 1
    /\ totalJobs = 5

\* Next Page advanced to the last page of 21 folders
C37_ExampleLastPage ==
    /\ handler = "onNextPageButton"
    /\ pageButtons
    /\ folderPage = 2
    /\ totalJobs = 21

====
